---- MODULE Spec2Model ----
(***************************************************************************)
(* A model of the baseball scorecard translator (baseball/baseball.py):    *)
(* the name normaliser, the roster index of a Team and the construction of *)
(* a PlateAppearance from a free-text description.                         *)
(*                                                                         *)
(* Python strings are TLA+ strings; they are taken apart character by      *)
(* character with Len, SubSeq and \o, so that substring tests, splits and   *)
(* the regular expressions of the source are computed as the source        *)
(* computes them.                                                          *)
(***************************************************************************)
EXTENDS Integers, Sequences, FiniteSets, TLC

(***************************************************************************)
(* Python values                                                           *)
(***************************************************************************)

\* Python's None, for the fields that hold either None or a string.  The
\* characters < and > occur in no description, code or name of the model.
None == "<None>"

\* The exceptions the translator can raise; NoExc is normal completion.
NoExc == "-"
ValueErrorPosition == "ValueError: not in position code dict"
ValueErrorKeyword == "ValueError: No keyword found in plate description"
ValueErrorPlayerKey == "ValueError: Player key must be either int or str"
ValueErrorNotFound == "ValueError: not found in team"
TypeErrorNotIterable == "TypeError: 'NoneType' object is not iterable"
IndexError == "IndexError"
KeyError == "KeyError"

\* What a call produces: the value it returns, or the exception it raises.
Return(v) == [exc |-> NoExc, val |-> v]
Raise(e) == [exc |-> e, val |-> None]

\* An assignment x = value followed by the code that uses x: the value is
\* computed once, before the code that reads it, as Python computes it.
Bind(value, Rest(_)) == CHOOSE result \in {Rest(x) : x \in {value}} : TRUE

(***************************************************************************)
(* Character classes of the regular expressions                            *)
(***************************************************************************)

UpperChars ==
    {"A", "B", "C", "D", "E", "F", "G", "H", "I", "J", "K", "L", "M",
     "N", "O", "P", "Q", "R", "S", "T", "U", "V", "W", "X", "Y", "Z"}

LowerChars ==
    {"a", "b", "c", "d", "e", "f", "g", "h", "i", "j", "k", "l", "m",
     "n", "o", "p", "q", "r", "s", "t", "u", "v", "w", "x", "y", "z"}

DigitChars == {"0", "1", "2", "3", "4", "5", "6", "7", "8", "9"}

\* \w
WordChars == UpperChars \cup LowerChars \cup DigitChars \cup {"_"}

\* [\w'-]
NameChars == WordChars \cup {"'", "-"}

\* [A-Z,a-z]: the comma is a member of the class as the source writes it
MiddleInitialChars == UpperChars \cup LowerChars \cup {","}

\* \s (the descriptions of the model hold no other white space than blanks)
SpaceChars == {" "}

(***************************************************************************)
(* str operations                                                          *)
(***************************************************************************)

\* s[i] with i counted from 1; "" past the end (used only by the matchers)
CharAt(s, i) == IF i >= 1 /\ i <= Len(s) THEN SubSeq(s, i, i) ELSE ""

\* s[i-1:] : the text from position i on
From(s, i) == SubSeq(s, i, Len(s))

\* s[:i-1] : the text before position i
Before(s, i) == SubSeq(s, 1, i - 1)

\* s.startswith(k, i-1)
StartsAt(s, k, i) == i + Len(k) - 1 <= Len(s) /\ SubSeq(s, i, i + Len(k) - 1) = k

\* k in s
Contains(s, k) == \E i \in 1..(Len(s) - Len(k) + 1) : SubSeq(s, i, i + Len(k) - 1) = k

\* s.find(k, i-1) + 1 : the first position >= i at which k occurs, 0 if none
Find(s, k, i) ==
    LET At(j) == SubSeq(s, j, j + Len(k) - 1) = k
        last == Len(s) - Len(k) + 1
    IN  IF \E j \in i..last : At(j)
        THEN CHOOSE j \in i..last : At(j) /\ \A y \in i..(j - 1) : ~At(y)
        ELSE 0

\* s.split(sep)
RECURSIVE Split(_, _)
Split(s, sep) ==
    Bind(Find(s, sep, 1), LAMBDA i :
        IF i = 0 THEN <<s>>
        ELSE Bind(From(s, i + Len(sep)), LAMBDA rest :
                 <<Before(s, i)>> \o Split(rest, sep)))

\* s.split(sep, 1)
Split1(s, sep) ==
    Bind(Find(s, sep, 1), LAMBDA i :
        IF i = 0 THEN <<s>> ELSE <<Before(s, i), From(s, i + Len(sep))>>)

\* s.replace(old, new), also re.sub of a literal pattern
RECURSIVE Replace(_, _, _)
Replace(s, old, new) ==
    Bind(Find(s, old, 1), LAMBDA i :
        IF i = 0 THEN s
        ELSE Bind(From(s, i + Len(old)), LAMBDA rest :
                 Before(s, i) \o new \o Replace(rest, old, new)))

\* the end (exclusive) of the longest run of characters of cls from position i
RunEnd(s, cls, i) ==
    IF i > Len(s) THEN i
    ELSE CHOOSE j \in i..(Len(s) + 1) :
             /\ j = Len(s) + 1 \/ CharAt(s, j) \notin cls
             /\ \A y \in i..(j - 1) : CharAt(s, y) \in cls

\* the start of the longest run of characters of cls that ends at position i
RunStart(s, cls, i) ==
    IF i < 1 THEN i
    ELSE CHOOSE j \in 0..i :
             /\ j = 0 \/ CharAt(s, j) \notin cls
             /\ \A y \in (j + 1)..i : CharAt(s, y) \in cls

\* s.lstrip(chars), s.rstrip(chars), s.strip(chars)
LStrip(s, chars) == From(s, RunEnd(s, chars, 1))

RStrip(s, chars) == Before(s, RunStart(s, chars, Len(s)) + 1)

Strip(s, chars) == Bind(LStrip(s, chars), LAMBDA t : RStrip(t, chars))

\* the end (exclusive) of the run of non-blank characters from position i
WordEnd(s, i) ==
    IF i > Len(s) THEN i
    ELSE CHOOSE j \in i..(Len(s) + 1) :
             /\ j = Len(s) + 1 \/ CharAt(s, j) \in SpaceChars
             /\ \A y \in i..(j - 1) : CharAt(s, y) \notin SpaceChars

\* s.split() : the white-space separated words of s
RECURSIVE SplitWords(_)
SplitWords(s) ==
    Bind(LStrip(s, SpaceChars), LAMBDA t :
        IF t = "" THEN <<>>
        ELSE Bind(WordEnd(t, 1), LAMBDA e :
                 Bind(From(t, e), LAMBDA rest :
                     <<Before(t, e)>> \o SplitWords(rest))))

\* sep.join(list)
RECURSIVE Join(_, _)
Join(list, sep) ==
    IF list = <<>> THEN ""
    ELSE IF Len(list) = 1 THEN list[1]
    ELSE list[1] \o sep \o Join(Tail(list), sep)

\* re.sub(suffix + '$', '', s) for a literal suffix
RemoveAtEnd(s, suffix) ==
    IF Len(s) >= Len(suffix) /\ StartsAt(s, suffix, Len(s) - Len(suffix) + 1)
    THEN Before(s, Len(s) - Len(suffix) + 1)
    ELSE s

(***************************************************************************)
(* The tables of the module                                                *)
(***************************************************************************)

POSITION_CODE_DICT ==
    [pitcher |-> 1, catcher |-> 2, first |-> 3, second |-> 4, third |-> 5,
     shortstop |-> 6, left |-> 7, center |-> 8, right |-> 9, designated |-> 10]

\* str(n) for the position codes
Str(n) == <<"1", "2", "3", "4", "5", "6", "7", "8", "9", "10">>[n]

ON_BASE_SUMMARY_DICT ==
    ("Single" :> "1B") @@ ("Double" :> "2B") @@ ("Triple" :> "3B") @@
    ("Hit By Pitch" :> "HBP") @@ ("Home Run" :> "HR") @@ ("Walk" :> "BB") @@
    ("Intent Walk" :> "IBB")

\* The code of a strikeout looking is the one-character string U+A4D8, a
\* turned K; it is written k here.  No other code holds a lower-case letter,
\* and the code is only ever compared and concatenated as a whole.
TurnedK == "k"

\* The ordered dict, as the list of its (keyword, code) items in order
PLAY_CODE_ORDERED_DICT ==
    << <<"picks off", "PO">>,
       <<"caught stealing", "CS">>,
       <<"wild pitch", "WP">>,
       <<"passed ball", "PB">>,
       <<"balk", "BLK">>,
       <<"steals", "S">>,
       <<"fan interference", "FI">>,
       <<"catcher interference", "CI">>,
       <<"error", "E">>,
       <<"ground", "G">>,
       <<"grand slam", "HR">>,
       <<"homers", "HR">>,
       <<"pop", "P">>,
       <<"line", "L">>,
       <<"fly", "F">>,
       <<"flies", "F">>,
       <<"sacrifice fly", "SF">>,
       <<"hit by pitch", "HBP">>,
       <<"bunt", "B">>,
       <<"sacrifice bunt", "SB">>,
       <<"walks", "BB">>,
       <<"intentionally walks", "IBB">>,
       <<"called out on strikes", TurnedK>>,
       <<"strikes out", "K">>,
       <<"choice", "FC">> >>

NO_HIT_CODE_LIST == {"K", TurnedK, "BB", "IBB"}

INCREMENT_BASE_DICT == ("1st" :> "2nd") @@ ("2nd" :> "3rd") @@ ("3rd" :> "home")

(***************************************************************************)
(* Name normaliser                                                         *)
(***************************************************************************)

\* re.search(suffix + r'\s+[A-Z]', s): whether the pattern matches at i
SuffixPatternAt(s, suffix, i) ==
    /\ StartsAt(s, suffix, i)
    /\ LET j == RunEnd(s, SpaceChars, i + Len(suffix))
       IN  j > i + Len(suffix) /\ CharAt(s, j) \in UpperChars

\* the start of the first match of the pattern at or after i, 0 if none
SuffixPatternSearch(s, suffix, i) ==
    IF \E j \in i..Len(s) : SuffixPatternAt(s, suffix, j)
    THEN CHOOSE j \in i..Len(s) :
             /\ SuffixPatternAt(s, suffix, j)
             /\ \A y \in i..(j - 1) : ~SuffixPatternAt(s, suffix, y)
    ELSE 0

\* One pass of the loop of strip_this_suffix as it would be if the period
\* was moved in front of the suffix instead of replacing it
SuffixPeriodMoved(suffix, input_str, start) ==
    Before(input_str, start) \o "." \o SubSeq(suffix, 2, Len(suffix) - 1) \o " "
        \o From(input_str, start + Len(suffix))

\* One pass of the loop of strip_this_suffix: the suffix inside the match
\* that starts at start becomes a period
SuffixReplaced(suffix, input_str, start) ==
    Before(input_str, start) \o "." \o From(input_str, start + Len(suffix))

\* strip_this_suffix(suffix + r'\s+[A-Z]', suffix, input_str): while the
\* pattern matches, the suffix inside the match becomes a period; then every
\* suffix left is deleted and the white space at both ends is stripped.
RECURSIVE strip_this_suffix(_, _)
strip_this_suffix(suffix, input_str) ==
    Bind(SuffixPatternSearch(input_str, suffix, 1), LAMBDA start :
        IF start # 0
        THEN Bind(SuffixReplaced(suffix, input_str, start),
                  LAMBDA replaced : strip_this_suffix(suffix, replaced))
        ELSE Bind(Replace(input_str, suffix, ""), LAMBDA deleted :
                  Strip(deleted, SpaceChars)))

strip_suffixes(input_str) ==
    Bind(strip_this_suffix(" Jr.", input_str), LAMBDA s1 :
    Bind(strip_this_suffix(" Sr.", s1), LAMBDA s2 :
    Bind(Replace(s2, " II", ""), LAMBDA s3 :
    Bind(Replace(s3, " III", ""), LAMBDA s4 :
    Bind(Replace(s4, " IV", ""), LAMBDA s5 :
        Replace(s5, " St. ", " St "))))))

\* re.search(r'[A-Z]\.\s+[A-Z]', s): whether the pattern matches at i
InitialThenCapitalAt(s, i) ==
    /\ CharAt(s, i) \in UpperChars
    /\ CharAt(s, i + 1) = "."
    /\ LET j == RunEnd(s, SpaceChars, i + 2)
       IN  j > i + 2 /\ CharAt(s, j) \in UpperChars

\* re.search(r'[A-Z]\.\s+[A-Z]\.\s+', s): whether the pattern matches at i
InitialsPairAt(s, i) ==
    /\ InitialThenCapitalAt(s, i)
    /\ LET j == RunEnd(s, SpaceChars, i + 2)
       IN  /\ CharAt(s, j + 1) = "."
           /\ RunEnd(s, SpaceChars, j + 2) > j + 2

\* the start of the first match of r'[A-Z]\.\s+[A-Z]\.\s+', 0 if none
InitialsPairSearch(s) ==
    IF \E j \in 1..Len(s) : InitialsPairAt(s, j)
    THEN CHOOSE j \in 1..Len(s) :
             InitialsPairAt(s, j) /\ \A y \in 1..(j - 1) : ~InitialsPairAt(s, y)
    ELSE 0

\* the start of the first match of r'[A-Z]\.\s+[A-Z]', 0 if none
InitialThenCapitalSearch(s) ==
    IF \E j \in 1..Len(s) : InitialThenCapitalAt(s, j)
    THEN CHOOSE j \in 1..Len(s) :
             InitialThenCapitalAt(s, j)
                 /\ \A y \in 1..(j - 1) : ~InitialThenCapitalAt(s, y)
    ELSE 0

\* One pass of the first loop of fix_initials on the match at index_start
InitialPairJoined(input_str, index_start) ==
    Bind(RunEnd(input_str, SpaceChars, index_start + 2), LAMBDA second :
    Bind(RunEnd(input_str, SpaceChars, second + 2), LAMBDA index_end :
        Before(input_str, index_start)
            \o CharAt(input_str, index_start) \o CharAt(input_str, second)
            \o " " \o From(input_str, index_end)))

\* One pass of the second loop of fix_initials on the match at index_start
InitialPeriodDropped(input_str, index_start) ==
    Strip(Before(input_str, index_start + 1) \o From(input_str, index_start + 2),
          SpaceChars)

\* The first loop of fix_initials: while two initials in a row are found,
\* the periods and the white space of the match are deleted and one blank
\* is put after the two letters.
RECURSIVE JoinInitialPairs(_)
JoinInitialPairs(input_str) ==
    Bind(InitialsPairSearch(input_str), LAMBDA index_start :
        IF index_start = 0 THEN input_str
        ELSE Bind(InitialPairJoined(input_str, index_start),
                  LAMBDA joined : JoinInitialPairs(joined)))

\* The second loop of fix_initials: while an initial before a capital is
\* found, its period is deleted and the white space at both ends of the
\* string is stripped.
RECURSIVE DropInitialPeriods(_)
DropInitialPeriods(input_str) ==
    Bind(InitialThenCapitalSearch(input_str), LAMBDA index_start :
        IF index_start = 0 THEN input_str
        ELSE Bind(InitialPeriodDropped(input_str, index_start),
                  LAMBDA dropped : DropInitialPeriods(dropped)))

fix_initials(input_str) ==
    Bind(JoinInitialPairs(input_str), LAMBDA joined : DropInitialPeriods(joined))

(***************************************************************************)
(* PlateAppearance: play classifier                                        *)
(***************************************************************************)

\* The loop of get_play_str as it would be with a break after the first
\* keyword found: the first match stays.
RECURSIVE ScanPlayCodesFirstMatch(_, _, _)
ScanPlayCodesFirstMatch(description_str, i, code) ==
    IF i > Len(PLAY_CODE_ORDERED_DICT) THEN code
    ELSE IF Contains(description_str, PLAY_CODE_ORDERED_DICT[i][1])
         THEN PLAY_CODE_ORDERED_DICT[i][2]
         ELSE ScanPlayCodesFirstMatch(description_str, i + 1, code)

\* The loop of get_play_str over PLAY_CODE_ORDERED_DICT.items(): code is
\* assigned at every keyword found in the clause, so the last one stays.
RECURSIVE ScanPlayCodes(_, _, _)
ScanPlayCodes(description_str, i, code) ==
    IF i > Len(PLAY_CODE_ORDERED_DICT) THEN code
    ELSE Bind(IF Contains(description_str, PLAY_CODE_ORDERED_DICT[i][1])
              THEN PLAY_CODE_ORDERED_DICT[i][2]
              ELSE code,
              LAMBDA assigned : ScanPlayCodes(description_str, i + 1, assigned))

\* The clause get_play_str classifies: the text before the first '. '
PlayClause(plate_appearance_description) ==
    Bind(strip_suffixes(plate_appearance_description), LAMBDA description_str :
        IF Contains(description_str, ". ")
        THEN Split(description_str, ". ")[1]
        ELSE description_str)

\* The disqualifying test without its last pattern
disqualified_description_no_ejected(description_str) ==
    \/ Contains(description_str, "out at")
    \/ Contains(description_str, "singles")
    \/ Contains(description_str, "doubles")
    \/ Contains(description_str, "triples")
    \/ Contains(description_str, "hits a home run")

disqualified_description(description_str) ==
    \/ Contains(description_str, "out at")
    \/ Contains(description_str, "singles")
    \/ Contains(description_str, "doubles")
    \/ Contains(description_str, "triples")
    \/ Contains(description_str, "hits a home run")
    \/ Contains(description_str, "ejected")

\* get_play_str as it would be without the test of the summary label
get_play_str_label_ignored(plate_appearance_description, plate_appearance_summary) ==
    Bind(PlayClause(plate_appearance_description), LAMBDA description_str :
    Bind(ScanPlayCodes(description_str, 1, None), LAMBDA code :
        IF code = None \/ code = ""
        THEN IF disqualified_description(description_str)
             THEN Return("")
             ELSE Raise(ValueErrorKeyword)
        ELSE Return(code)))

get_play_str(plate_appearance_description, plate_appearance_summary) ==
    Bind(PlayClause(plate_appearance_description), LAMBDA description_str :
    Bind(ScanPlayCodes(description_str, 1, None), LAMBDA scanned :
    Bind(IF plate_appearance_summary = "Fan interference" THEN "FI" ELSE scanned,
         LAMBDA code :
        IF code = None \/ code = ""
        THEN IF disqualified_description(description_str)
             THEN Return("")
             ELSE Raise(ValueErrorKeyword)
        ELSE Return(code))))

(***************************************************************************)
(* PlateAppearance: defensive chain                                        *)
(***************************************************************************)

\* The loop of process_defense_predicate_list without its raise: whatever
\* is not a known position is left out.
RECURSIVE process_defense_predicate_list_lenient(_)
process_defense_predicate_list_lenient(defense_player_order) ==
    IF defense_player_order = <<>> THEN Return(<<>>)
    ELSE Bind(process_defense_predicate_list_lenient(Tail(defense_player_order)),
              LAMBDA rest :
             IF Head(defense_player_order) \in DOMAIN POSITION_CODE_DICT
             THEN Return(<<Str(POSITION_CODE_DICT[Head(defense_player_order)])>>
                         \o rest.val)
             ELSE rest)

\* The loop of process_defense_predicate_list: the code of a known
\* position, nothing for a base name, ValueError for anything else.
RECURSIVE process_defense_predicate_list(_)
process_defense_predicate_list(defense_player_order) ==
    IF defense_player_order = <<>> THEN Return(<<>>)
    ELSE Bind(Head(defense_player_order), LAMBDA defense_position :
         IF defense_position \in DOMAIN POSITION_CODE_DICT
         THEN Bind(process_defense_predicate_list(Tail(defense_player_order)),
                   LAMBDA rest :
                  IF rest.exc # NoExc THEN rest
                  ELSE Return(<<Str(POSITION_CODE_DICT[defense_position])>> \o rest.val))
         ELSE IF Strip(defense_position, {" ", "."}) \notin {"1st", "2nd", "3rd"}
              THEN Raise(ValueErrorPosition)
              ELSE process_defense_predicate_list(Tail(defense_player_order)))

\* The body of the loop of get_defense_player_order for one position
FirstWordOfPosition(position) ==
    Bind(IF Contains(position, "deep")
         THEN Strip(Replace(position, "deep", ""), SpaceChars)
         ELSE position, LAMBDA p1 :
    Bind(IF Contains(p1, "shallow")
         THEN Strip(Replace(p1, "shallow", ""), SpaceChars)
         ELSE p1, LAMBDA p2 :
    Bind(SplitWords(p2), LAMBDA words :
        IF words = <<>> THEN Raise(IndexError)
        ELSE Return(Split(words[1], "-")[1]))))

RECURSIVE get_defense_player_order(_)
get_defense_player_order(defense_predicate_list) ==
    IF defense_predicate_list = <<>> THEN Return(<<>>)
    ELSE Bind(FirstWordOfPosition(Head(defense_predicate_list)), LAMBDA this_position :
         IF this_position.exc # NoExc THEN this_position
         ELSE Bind(get_defense_player_order(Tail(defense_predicate_list)), LAMBDA rest :
                  IF rest.exc # NoExc THEN rest
                  ELSE Return(<<this_position.val>> \o rest.val)))

\* The if/elif chain of get_defense_predicate_list with the test of ' to '
\* alone put before the test of ', ' and ' to '
DefenseRulesToFirst(description_str) ==
    IF \/ Contains(description_str, "caught stealing")
       \/ Contains(description_str, "on fan interference")
       \/ Contains(description_str, "picks off")
       \/ Contains(description_str, "wild pitch by")
    THEN Return([str |-> description_str, list |-> <<>>])
    ELSE IF Contains(description_str, "catcher interference by")
    THEN Return([str |-> description_str, list |-> <<"catcher">>])
    ELSE IF Contains(description_str, "fielded by")
    THEN Bind(Split(description_str, " fielded by "), LAMBDA parts :
             IF Len(parts) < 2 THEN Raise(IndexError)
             ELSE Return([str |-> parts[2], list |-> <<parts[2]>>]))
    ELSE IF Contains(description_str, " to ")
    THEN Return([str |-> description_str,
                 list |-> Tail(Split(description_str, " to "))])
    ELSE Return([str |-> description_str, list |-> <<>>])

\* The if/elif chain of get_defense_predicate_list: the list it builds and
\* the description_str it leaves for the 'error by' test that follows.
DefenseRules(description_str) ==
    IF \/ Contains(description_str, "caught stealing")
       \/ Contains(description_str, "on fan interference")
       \/ Contains(description_str, "picks off")
       \/ Contains(description_str, "wild pitch by")
    THEN Return([str |-> description_str, list |-> <<>>])
    ELSE IF Contains(description_str, "catcher interference by")
    THEN Return([str |-> description_str, list |-> <<"catcher">>])
    ELSE IF Contains(description_str, "fielded by")
    THEN Bind(Split(description_str, " fielded by "), LAMBDA parts :
             IF Len(parts) < 2 THEN Raise(IndexError)
             ELSE Return([str |-> parts[2], list |-> <<parts[2]>>]))
    ELSE IF Contains(description_str, ", ") /\ Contains(description_str, " to ")
    THEN Bind(Split(description_str, ", ")[2], LAMBDA segment :
             Return([str |-> segment, list |-> Split(segment, " to ")]))
    ELSE IF Contains(description_str, " to ")
    THEN Return([str |-> description_str,
                 list |-> Tail(Split(description_str, " to "))])
    ELSE Return([str |-> description_str, list |-> <<>>])

get_defense_predicate_list(description_str) ==
    Bind(DefenseRules(description_str), LAMBDA ruled :
        IF ruled.exc # NoExc THEN ruled
        ELSE IF Contains(ruled.val.str, "error by")
        THEN Bind(Split(ruled.val.str, " error by "), LAMBDA parts :
                 IF Len(parts) < 2 THEN Raise(IndexError)
                 ELSE Return(<<parts[2]>>))
        ELSE Return(ruled.val.list))

get_defense_code_order(description_str) ==
    Bind(get_defense_predicate_list(description_str), LAMBDA defense_predicate_list :
        IF defense_predicate_list.exc # NoExc THEN defense_predicate_list
        ELSE Bind(get_defense_player_order(defense_predicate_list.val),
                  LAMBDA defense_player_order :
                 IF defense_player_order.exc # NoExc THEN defense_player_order
                 ELSE process_defense_predicate_list(defense_player_order.val)))

\* The alternatives of the out-phrasing group shared by get_defense_suffix
\* and get_out_runners_list, in the order the regular expression tries them
\* ((?:was )? is greedy: the form with 'was ' is tried first).
OutPhrases ==
    <<"out at",
      "was picked off and caught stealing", "picked off and caught stealing",
      "was caught stealing", "caught stealing",
      "was picked off", "picked off",
      "was doubled off", "doubled off">>

\* Whether [1-3,h][snro][tdm][e]?[\w\s]*,<blank> matches at position i.  The
\* optional e is itself a \w, and the run [\w\s]* cannot cross the comma, so
\* the comma has to be the first character after the run.
SuffixBaseAt(s, i) ==
    /\ CharAt(s, i) \in {"1", "2", "3", ",", "h"}
    /\ CharAt(s, i + 1) \in {"s", "n", "r", "o"}
    /\ CharAt(s, i + 2) \in {"t", "d", "m"}
    /\ StartsAt(s, ", ", RunEnd(s, WordChars \cup SpaceChars, i + 3))

\* Whether the pattern of get_defense_suffix matches at position i
DefenseSuffixAt(s, i) ==
    \E k \in 1..Len(OutPhrases) :
        /\ StartsAt(s, OutPhrases[k], i)
        /\ SuffixBaseAt(s, i + Len(OutPhrases[k]))

\* this_search.start() + 1, or 0 when the search finds nothing
DefenseSuffixSearch(s, i) ==
    IF \E j \in i..Len(s) : DefenseSuffixAt(s, j)
    THEN CHOOSE j \in i..Len(s) :
             /\ DefenseSuffixAt(s, j)
             /\ \A y \in i..(j - 1) : ~DefenseSuffixAt(s, y)
    ELSE 0

get_defense_suffix(suffix_str) ==
    Bind(DefenseSuffixSearch(suffix_str, 1), LAMBDA start :
        IF start # 0
        THEN Bind(get_defense_code_order(From(suffix_str, start)),
                  LAMBDA suffix_code_order :
                 IF suffix_code_order.exc # NoExc THEN suffix_code_order
                 ELSE Return(" (" \o Join(suffix_code_order.val, "-") \o ")"))
        ELSE Return(""))

(***************************************************************************)
(* PlateAppearance: segmenter and assembler                                *)
(***************************************************************************)

\* The description_str and suffix_str of get_throws_str after its four splits
ThrowsClauses(plate_appearance_description) ==
    Bind(strip_suffixes(plate_appearance_description), LAMBDA d0 :
    Bind(Split1(d0, ". "), LAMBDA halves :
    Bind(halves[1], LAMBDA d1 :
    Bind(IF Contains(d1, ", deflected") THEN Split(d1, ", deflected")[1] ELSE d1,
         LAMBDA d2 :
    Bind(IF Contains(d2, ", assist") THEN Split(d2, ", assist")[1] ELSE d2,
         LAMBDA d3 :
    Bind(IF Contains(d3, ": ") THEN Split(d3, ": ")[2] ELSE d3, LAMBDA d4 :
        [description_str |-> d4,
         suffix_str |-> IF Len(halves) = 2 THEN halves[2] ELSE ""]))))))

\* Returns the pair (defense_str, defense_suffix)
get_throws_str(plate_appearance_description) ==
    Bind(ThrowsClauses(plate_appearance_description), LAMBDA clauses :
    Bind(get_defense_code_order(clauses.description_str), LAMBDA defense_code_order :
        IF defense_code_order.exc # NoExc THEN defense_code_order
        ELSE Bind(get_defense_suffix(clauses.suffix_str), LAMBDA defense_suffix :
                 IF defense_suffix.exc # NoExc THEN defense_suffix
                 ELSE Return(<<Join(defense_code_order.val, "-"), defense_suffix.val>>))))

\* get_hit_location without the test of NO_HIT_CODE_LIST
get_hit_location_any_code(plate_appearance_description, plate_appearance_summary) ==
    Bind(get_play_str(plate_appearance_description, plate_appearance_summary),
         LAMBDA play_str :
        IF play_str.exc # NoExc THEN play_str
        ELSE Bind(get_throws_str(plate_appearance_description), LAMBDA throws :
                 IF throws.exc # NoExc THEN throws
                 ELSE IF throws.val[1] # ""
                 THEN Return(play_str.val \o CharAt(throws.val[1], 1))
                 ELSE Return(None)))

\* get_hit_location as it would be if an empty play code gave no location
get_hit_location_coded_only(plate_appearance_description, plate_appearance_summary) ==
    Bind(get_play_str(plate_appearance_description, plate_appearance_summary),
         LAMBDA play_str :
        IF play_str.exc # NoExc THEN play_str
        ELSE Bind(get_throws_str(plate_appearance_description), LAMBDA throws :
                 IF throws.exc # NoExc THEN throws
                 ELSE IF /\ throws.val[1] # ""
                         /\ play_str.val \notin NO_HIT_CODE_LIST \cup {""}
                 THEN Return(play_str.val \o CharAt(throws.val[1], 1))
                 ELSE Return(None)))

\* Returns hit_location; play_str and throws_str are its two locals
get_hit_location(plate_appearance_description, plate_appearance_summary) ==
    Bind(get_play_str(plate_appearance_description, plate_appearance_summary),
         LAMBDA play_str :
        IF play_str.exc # NoExc THEN play_str
        ELSE Bind(get_throws_str(plate_appearance_description), LAMBDA throws :
                 IF throws.exc # NoExc THEN throws
                 ELSE IF throws.val[1] # "" /\ play_str.val \notin NO_HIT_CODE_LIST
                 THEN Return(play_str.val \o CharAt(throws.val[1], 1))
                 ELSE Return(None)))

get_error_str(plate_appearance_description) ==
    IF Contains(plate_appearance_description, "error")
    THEN Bind(Split(plate_appearance_description, " error by "), LAMBDA parts :
             IF Len(parts) < 2 THEN Raise(IndexError)
             ELSE Bind(SplitWords(parts[2]), LAMBDA words :
                      IF words = <<>> THEN Raise(IndexError)
                      ELSE IF words[1] \notin DOMAIN POSITION_CODE_DICT
                      THEN Raise(KeyError)
                      ELSE Return("E" \o Str(POSITION_CODE_DICT[words[1]]))))
    ELSE IF Contains(plate_appearance_description, "catcher interference")
    THEN Return("E2")
    ELSE Return(None)

\* get_on_base_and_summary with the suffix left off the on-base notation
get_on_base_and_summary_bare(plate_appearance_description, plate_appearance_summary) ==
    Bind(get_throws_str(plate_appearance_description), LAMBDA throws :
        IF throws.exc # NoExc THEN throws
        ELSE IF plate_appearance_summary \in DOMAIN ON_BASE_SUMMARY_DICT
        THEN Return(<<TRUE, ON_BASE_SUMMARY_DICT[plate_appearance_summary]>>)
        ELSE Bind(get_play_str(plate_appearance_description, plate_appearance_summary),
                  LAMBDA play_str :
                 IF play_str.exc # NoExc THEN play_str
                 ELSE Return(<<FALSE, play_str.val \o throws.val[1] \o throws.val[2]>>)))

\* Returns the pair (on_base, scorecard_summary)
get_on_base_and_summary(plate_appearance_description, plate_appearance_summary) ==
    Bind(get_throws_str(plate_appearance_description), LAMBDA throws :
        IF throws.exc # NoExc THEN throws
        ELSE IF plate_appearance_summary \in DOMAIN ON_BASE_SUMMARY_DICT
        THEN Return(<<TRUE, ON_BASE_SUMMARY_DICT[plate_appearance_summary] \o throws.val[2]>>)
        ELSE Bind(get_play_str(plate_appearance_description, plate_appearance_summary),
                  LAMBDA play_str :
                 IF play_str.exc # NoExc THEN play_str
                 ELSE Return(<<FALSE, play_str.val \o throws.val[1] \o throws.val[2]>>)))

(***************************************************************************)
(* Player and Team                                                         *)
(***************************************************************************)

\* The Player objects that exist, by reference, with the attributes their
\* constructor was given.  Players are immutable once constructed.
Player ==
    [p_pujols  |-> [last_name |-> "Pujols",     first_name |-> "Albert", mlb_id |-> 405395],
     p_acuna   |-> [last_name |-> "Acuna Jr.",  first_name |-> "Ronald", mlb_id |-> 660670],
     p_apujols |-> [last_name |-> "Pujols",     first_name |-> "Alex",   mlb_id |-> 500001],
     p_vanslyke |-> [last_name |-> "Van Slyke", first_name |-> "Scott",  mlb_id |-> 489267],
     p_delarosa |-> [last_name |-> "De La Rosa", first_name |-> "Jorge", mlb_id |-> 407822],
     p_griffey  |-> [last_name |-> "Griffey III", first_name |-> "Ken",  mlb_id |-> 115135],
     p_pujols_b |-> [last_name |-> "Pujols",    first_name |-> "Albert", mlb_id |-> 405396],
     p_calhoun  |-> [last_name |-> "Calhoun",   first_name |-> "Kole",   mlb_id |-> 405395]]

\* The players of the batting team whose plate appearances are constructed
PlayerRefs == {"p_pujols", "p_acuna", "p_apujols"}

\* Every Player object
AllPlayerRefs == DOMAIN Player

full_name(p) == Player[p].first_name \o " " \o Player[p].last_name

VARIABLES
    pitcher_list,             \* Team.pitcher_list
    batting_order_list_list,  \* Team.batting_order_list_list
    player_id_dict,         \* Team.player_id_dict: mlb_id -> Player
    player_name_dict,       \* Team.player_name_dict: full name -> Player
    player_last_name_dict   \* Team.player_last_name_dict: initial + last name -> Player

team_vars == <<pitcher_list, batting_order_list_list,
               player_id_dict, player_name_dict, player_last_name_dict>>

\* A slot of batting_order_list_list that holds None
NoneList == [is_none |-> TRUE, list |-> <<>>]

\* [None] * 9
EmptyBattingOrder == [slot \in 1..9 |-> NoneList]

\* dict[key] = value
DictSet(dict, key, value) == (key :> value) @@ dict

\* dict.get(key)
DictGet(dict, key) == IF key \in DOMAIN dict THEN dict[key] ELSE None

\* The key under which Team.append files a player in player_last_name_dict
AppendLastNameKey(p) ==
    Bind(RemoveAtEnd(Replace(Strip(Player[p].last_name, {".", " "}), ",", ""), " Jr"),
         LAMBDA l1 :
    Bind(RemoveAtEnd(Replace(Strip(l1, {".", " "}), ",", ""), " Sr"), LAMBDA l2 :
    Bind(RemoveAtEnd(Strip(l2, SpaceChars), " II"), LAMBDA l3 :
    Bind(RemoveAtEnd(Strip(l3, SpaceChars), " III"), LAMBDA l4 :
    Bind(RemoveAtEnd(Strip(l4, SpaceChars), " IV"), LAMBDA l5 :
    Bind(Replace(Strip(l5, SpaceChars), " St. ", " St "), LAMBDA l6 :
    Bind(IF Contains(l6, " ") THEN SplitWords(l6)[2] ELSE l6, LAMBDA last_name :
        CharAt(Player[p].first_name, 1) \o last_name)))))))

\* The string branch of Team.find_player: Return(the Player or None), or
\* IndexError when nothing is left of the name to take an initial from.
find_player_by_name(player_key) ==
    IF player_key \in DOMAIN player_name_dict
    THEN Return(player_name_dict[player_key])
    ELSE Bind(RemoveAtEnd(Strip(player_key, {" ", "."}), " Jr"), LAMBDA n1 :
         Bind(RemoveAtEnd(Strip(n1, {" ", "."}), " Sr"), LAMBDA n2 :
         Bind(RemoveAtEnd(Strip(n2, SpaceChars), " II"), LAMBDA n3 :
         Bind(RemoveAtEnd(Strip(n3, SpaceChars), " III"), LAMBDA n4 :
         Bind(RemoveAtEnd(Strip(n4, SpaceChars), " IV"), LAMBDA n5 :
         Bind(strip_suffixes(Strip(n5, SpaceChars)), LAMBDA player_name :
         Bind(SplitWords(player_name), LAMBDA words :
             IF player_name = "" \/ words = <<>> THEN Raise(IndexError)
             ELSE Return(DictGet(player_last_name_dict,
                                 CharAt(player_name, 1) \o words[Len(words)])))))))))

\* The int branch of Team.find_player
find_player_by_id(player_id) == Return(DictGet(player_id_dict, player_id))

\* A key handed to Team.find_player: its Python type and its value
IntKey(player_id) == [isinstance |-> "int", int |-> player_id, str |-> ""]
StrKey(player_name) == [isinstance |-> "str", int |-> 0, str |-> player_name]
OtherKey == [isinstance |-> "NoneType", int |-> 0, str |-> ""]

\* No call of Team.find_player was made yet
NoKey == [isinstance |-> "<unset>", int |-> 0, str |-> ""]

\* Team.find_player(player_key)
find_player(player_key) ==
    IF player_key.isinstance = "int" THEN find_player_by_id(player_key.int)
    ELSE IF player_key.isinstance = "str" THEN find_player_by_name(player_key.str)
    ELSE Raise(ValueErrorPlayerKey)

\* bool(player): Player defines neither __bool__ nor __len__, so every
\* Player object is true and None is false
PlayerBool(player) == player # None

\* Team.__contains__
contains(player_key) ==
    Bind(find_player(player_key), LAMBDA found :
        IF found.exc # NoExc THEN found
        ELSE Return(PlayerBool(found.val)))

\* Team.__getitem__ as it would be without its else branch
getitem_or_none(player_key) == find_player(player_key)

\* Team.__getitem__
getitem(player_key) ==
    Bind(find_player(player_key), LAMBDA found :
        IF found.exc # NoExc THEN found
        ELSE IF PlayerBool(found.val) THEN found
        ELSE Raise(ValueErrorNotFound))

\* Team.__getitem__ for a string key
TeamGetItem(player_key) ==
    Bind(find_player_by_name(player_key), LAMBDA player :
        IF player.exc # NoExc THEN player
        ELSE IF player.val # None THEN player
        ELSE Raise(ValueErrorNotFound))

(***************************************************************************)
(* PlateAppearance: baserunner outcome extractor                           *)
(***************************************************************************)

NoMatch == [ok |-> FALSE, name |-> "", base |-> "", end |-> 0]

\* One name word [first][\w'-]+ at position i followed by \s+ : the position
\* after the white space, 0 when there is no such word.  The word is
\* followed by white space, so it is the whole run of name characters.
NameWordThenSpace(s, i, first) ==
    IF CharAt(s, i) \notin first THEN 0
    ELSE Bind(RunEnd(s, NameChars, i + 1), LAMBDA e :
         Bind(RunEnd(s, SpaceChars, e), LAMBDA j :
             IF e > i + 1 /\ j > e THEN j ELSE 0))

\* The last name word [A-Z][\w'-]+ at position i: its end, 0 if none
LastNameWordEnd(s, i) ==
    IF CharAt(s, i) \notin UpperChars THEN 0
    ELSE Bind(RunEnd(s, NameChars, i + 1), LAMBDA e :
             IF e > i + 1 THEN e ELSE 0)

\* The phrase OutPhrases[k] at position q, then ' +' and (\w+): the start
\* of the base word, 0 when the alternative does not match there
BaseStartAfter(s, q, k) ==
    IF ~StartsAt(s, OutPhrases[k], q) THEN 0
    ELSE Bind(RunEnd(s, SpaceChars, q + Len(OutPhrases[k])), LAMBDA b :
             IF b > q + Len(OutPhrases[k]) /\ CharAt(s, b) \in WordChars
             THEN b ELSE 0)

\* \s+(?:out at|...) +(\w+) at position e, the end of the name that starts
\* at i: the first alternative after which blanks and a word follow.
OutPhraseTail(s, i, e) ==
    IF e = 0 THEN NoMatch
    ELSE Bind(RunEnd(s, SpaceChars, e), LAMBDA q :
         Bind({k \in 1..Len(OutPhrases) : BaseStartAfter(s, q, k) # 0}, LAMBDA K :
             IF q = e \/ K = {} THEN NoMatch
             ELSE Bind(BaseStartAfter(s, q, CHOOSE x \in K : \A y \in K : x <= y),
                       LAMBDA b :
                  Bind(RunEnd(s, WordChars, b), LAMBDA end :
                      [ok |-> TRUE,
                       name |-> SubSeq(s, i, e - 1),
                       base |-> SubSeq(s, b, end - 1),
                       end |-> end]))))

\* The match of the runner pattern that starts at position i.  The two
\* optional middle words are greedy: four words are tried first, then
\* three, then two.
RunnerMatchAt(s, i) ==
    Bind(NameWordThenSpace(s, i, UpperChars), LAMBDA p2 :
        IF p2 = 0 THEN NoMatch
        ELSE Bind(NameWordThenSpace(s, p2, MiddleInitialChars), LAMBDA p3 :
             Bind(IF p3 = 0 THEN 0 ELSE NameWordThenSpace(s, p3, MiddleInitialChars),
                  LAMBDA p4 :
             Bind(IF p4 = 0 THEN NoMatch
                  ELSE OutPhraseTail(s, i, LastNameWordEnd(s, p4)), LAMBDA four :
                 IF four.ok THEN four
                 ELSE Bind(IF p3 = 0 THEN NoMatch
                           ELSE OutPhraseTail(s, i, LastNameWordEnd(s, p3)),
                           LAMBDA three :
                          IF three.ok THEN three
                          ELSE OutPhraseTail(s, i, LastNameWordEnd(s, p2)))))))

\* The start of the first match of the runner pattern at or after position
\* i, 0 when there is none
RunnerSearch(s, i) ==
    Bind({j \in i..Len(s) : RunnerMatchAt(s, j).ok}, LAMBDA starts :
        IF starts = {} THEN 0
        ELSE CHOOSE j \in starts : \A y \in starts : j <= y)

\* findall: the (name, base) pairs of the matches, left to right, each
\* search starting where the match before it ended
RECURSIVE FindAllRunners(_, _)
FindAllRunners(s, i) ==
    Bind(RunnerSearch(s, i), LAMBDA start :
        IF start = 0 THEN <<>>
        ELSE Bind(RunnerMatchAt(s, start), LAMBDA m :
                 <<<<m.name, m.base>>>> \o FindAllRunners(s, m.end)))

\* findall(escape(name) + r' (?:was )?doubled off', description) is not empty
DoubledOffSomewhere(description, name) ==
    \/ Contains(description, name \o " doubled off")
    \/ Contains(description, name \o " was doubled off")

\* The loop of get_out_runners_list over runner_name_list
RECURSIVE RunnerTuples(_, _)
RunnerTuples(description, runner_name_list) ==
    IF runner_name_list = <<>> THEN Return(<<>>)
    ELSE Bind(Head(runner_name_list)[1], LAMBDA name :
         Bind(Head(runner_name_list)[2], LAMBDA found_base :
         Bind(DoubledOffSomewhere(description, name), LAMBDA doubled :
             IF doubled /\ found_base \notin DOMAIN INCREMENT_BASE_DICT
             THEN Raise(KeyError)
             ELSE Bind(IF doubled THEN INCREMENT_BASE_DICT[found_base] ELSE found_base,
                       LAMBDA base :
                  Bind(TeamGetItem(name), LAMBDA player :
                      IF player.exc # NoExc THEN player
                      ELSE Bind(RunnerTuples(description, Tail(runner_name_list)),
                                LAMBDA rest :
                               IF rest.exc # NoExc THEN rest
                               ELSE Return(<<<<player.val, base>>>> \o rest.val)))))))

get_out_runners_list(plate_appearance_description) ==
    Bind(strip_suffixes(plate_appearance_description), LAMBDA description :
    Bind(FindAllRunners(description, 1), LAMBDA runner_name_list :
        RunnerTuples(description, runner_name_list)))

(***************************************************************************)
(* The inputs                                                              *)
(***************************************************************************)

\* The most players a roster of the model holds
MaxRoster == 2

\* The main event of a description
PrimaryClauses ==
    {"Mike Trout grounds out, shortstop Marcus Semien to first baseman Matt Olson",
     "Mike Trout grounds out, shortstop to second to first",
     "Mike Trout hits a sacrifice fly to center fielder Kevin Pillar",
     "Mike Trout singles on a line drive to left fielder Khris Davis",
     "Mike Trout singles to center field",
     "Mike Trout strikes out swinging",
     "Mike Trout called out on strikes",
     "Mike Trout walks",
     "Sean Manaea intentionally walks Mike Trout",
     "Mike Trout reaches on a throwing error by shortstop Marcus Semien",
     "Mike Trout reaches on a throwing error",
     "Mike Trout reaches on catcher interference by Josh Phegley",
     "Mike Trout flies out to deep center fielder Kevin Pillar",
     "Mike Trout pops out to shallow right",
     "Mike Trout reaches on a fielder's choice, fielded by shortstop Marcus Semien",
     "Mike Trout hit by pitch",
     "Mike Trout out on a sacrifice bunt, pitcher Sean Manaea to first baseman Matt Olson",
     "Mike Trout grounds out, shortstop Marcus Semien to 2nd",
     "Mike Trout grounds out to the mound",
     "Mike Trout reaches on a dropped third strike",
     "Mike Trout ejected by umpire Joe West",
     "Mike Trout doubles to deep left",
     "Mike Trout homers to left field",
     "Mike Trout hits a home run",
     "Mike Trout doubles on fan interference",
     "Mike Trout lines out to third baseman Matt Chapman, deflected by pitcher Sean Manaea",
     "With Mike Trout batting, Albert Pujols caught stealing 2nd, catcher Josh Phegley to shortstop Marcus Semien",
     "Mike Trout lines into a double play, second baseman Jed Lowrie to shortstop Marcus Semien",
     "Ronald Acuna Jr. flies out to left fielder Khris Davis",
     "Mike Trout flies out to deep",
     "Mike Trout reaches on a throwing error by reliever Sean Manaea",
     "Mike Trout strikes out swinging, catcher Josh Phegley to first baseman Matt Olson",
     "Mike Trout grounds out, shortstop Marcus Semien to first baseman Matt Olson, on a close play",
     "Mike Trout reaches on a fielding error by shortstop Marcus Semien, Albert Pujols to 3rd",
     "singles to left",
     "Angels challenged (tag play): Mike Trout grounds out to first baseman Matt Olson",
     "Umpire reviewed: call on the field was upheld: Mike Trout grounds out to first baseman Matt Olson"}

\* The main events that are also followed by clauses about the runners
RunnerPrimaryClauses ==
    {"Mike Trout grounds out, shortstop Marcus Semien to first baseman Matt Olson",
     "Mike Trout lines into a double play, second baseman Jed Lowrie to shortstop Marcus Semien",
     "Mike Trout hits a sacrifice fly to center fielder Kevin Pillar",
     "Mike Trout singles to center field",
     "Mike Trout strikes out swinging",
     "Mike Trout reaches on a throwing error"}

\* The end of a description without runners: nothing, or the final period
FinalClauses == {"", "."}

\* The clauses about the runners that follow a main event
RunnerClauses ==
    {". Albert Pujols out at 2nd.",
     ". Albert Pujols doubled off 2nd.",
     ". Albert Pujols scores.",
     ". Albert Pujols doubled off second base, 4-6.",
     ". Albert Pujols out at 1st. Albert Pujols doubled off 2nd.",
     ". Ronald Acuna Jr. out at 3rd.",
     ". Albert Pujols scores on a throwing error by Khris Davis.",
     ". Albert Pujols was doubled off 1st.",
     ". Albert Pujols caught stealing 3rd.",
     ". Albert Pujols out at2nd, catcher Josh Phegley to shortstop Marcus Semien.",
     ". Albert Pujols out at 2nd, shortstop Marcus Semien to second baseman Jed Lowrie."}

Descriptions ==
    {p \o e : p \in PrimaryClauses, e \in FinalClauses}
    \cup {p \o e : p \in RunnerPrimaryClauses, e \in RunnerClauses}

\* The short summary labels the data source supplies
Summaries == {"Single", "Walk", "Groundout", "Fan interference"}

(***************************************************************************)
(* State                                                                   *)
(***************************************************************************)

\* An attribute that is not assigned yet
Unset == "<unset>"

VARIABLES
    pc,                             \* where the construction stands
    exc,                            \* the exception that ended it, or NoExc
    plate_appearance_description,   \* PlateAppearance fields
    plate_appearance_summary,
    out_runners_list,
    hit_location,
    error_str,
    got_on_base,
    scorecard_summary,
    player_key,                     \* the key of the last lookup in the Team
    player,                         \* the Player that lookup returned
    contained,                      \* what the last 'key in team' returned
    input_str,                      \* the string the name normalisers work on
    game                            \* the Game object, its attributes as fields

pa_vars == <<plate_appearance_description, plate_appearance_summary,
             out_runners_list, hit_location, error_str, got_on_base,
             scorecard_summary>>

call_vars == <<player_key, player, contained, input_str>>

\* No Game was constructed
NoGame == [constructed |-> FALSE]

vars == <<pc, exc, team_vars, pa_vars, call_vars, game>>

\* Team.__init__
Init ==
    /\ pitcher_list = <<>>
    /\ batting_order_list_list = EmptyBattingOrder
    /\ player_id_dict = <<>>
    /\ player_name_dict = <<>>
    /\ player_last_name_dict = <<>>
    /\ game = NoGame
    /\ pc = "roster"
    /\ exc = NoExc
    /\ plate_appearance_description = Unset
    /\ plate_appearance_summary = Unset
    /\ out_runners_list = Unset
    /\ hit_location = Unset
    /\ error_str = Unset
    /\ got_on_base = Unset
    /\ scorecard_summary = Unset
    /\ player_key = NoKey
    /\ player = Unset
    /\ contained = FALSE
    /\ input_str = Unset

\* Team.append(player)
TeamAppend(p) ==
    /\ pc = "roster"
    /\ Cardinality(DOMAIN player_id_dict \cup {Player[p].mlb_id}) <= MaxRoster
    /\ player_id_dict' = DictSet(player_id_dict, Player[p].mlb_id, p)
    /\ player_name_dict' = DictSet(player_name_dict, full_name(p), p)
    /\ player_last_name_dict' = DictSet(player_last_name_dict, AppendLastNameKey(p), p)
    /\ UNCHANGED <<pc, exc, pa_vars, call_vars, game, pitcher_list, batting_order_list_list>>

\* PlateAppearance.__init__, the assignments of its arguments
NewPlateAppearance(description, summary) ==
    /\ pc = "roster"
    /\ plate_appearance_description' = description
    /\ plate_appearance_summary' = summary
    /\ pc' = "get_out_runners_list"
    /\ UNCHANGED <<exc, team_vars, call_vars, game, out_runners_list, hit_location, error_str,
                   got_on_base, scorecard_summary>>

\* The assignment of out_runners_list as it would be if the lookup took the
\* runners it resolves out of player_name_dict (dict.pop instead of a read)
GetOutRunnersListPopping ==
    /\ pc = "get_out_runners_list"
    /\ \E r \in {get_out_runners_list(plate_appearance_description)} :
           /\ exc' = r.exc
           /\ pc' = IF r.exc = NoExc THEN "get_hit_location" ELSE "raised"
           /\ out_runners_list' = IF r.exc = NoExc THEN r.val ELSE out_runners_list
           /\ player_name_dict' =
                  IF r.exc # NoExc THEN player_name_dict
                  ELSE [name \in {n \in DOMAIN player_name_dict :
                                     \A k \in DOMAIN r.val :
                                         r.val[k][1] # player_name_dict[n]}
                            |-> player_name_dict[name]]
    /\ UNCHANGED <<pitcher_list, batting_order_list_list, player_id_dict,
                   player_last_name_dict, call_vars, game,
                   plate_appearance_description, plate_appearance_summary,
                   hit_location, error_str, got_on_base, scorecard_summary>>

\* self.out_runners_list = self.get_out_runners_list()
GetOutRunnersList ==
    /\ pc = "get_out_runners_list"
    /\ \E r \in {get_out_runners_list(plate_appearance_description)} :
           /\ exc' = r.exc
           /\ pc' = IF r.exc = NoExc THEN "get_hit_location" ELSE "raised"
           /\ out_runners_list' = IF r.exc = NoExc THEN r.val ELSE out_runners_list
    /\ UNCHANGED <<team_vars, call_vars, game, plate_appearance_description, plate_appearance_summary,
                   hit_location, error_str, got_on_base, scorecard_summary>>

\* self.hit_location = self.get_hit_location()
GetHitLocation ==
    /\ pc = "get_hit_location"
    /\ \E r \in {get_hit_location(plate_appearance_description, plate_appearance_summary)} :
           /\ exc' = r.exc
           /\ pc' = IF r.exc = NoExc THEN "get_error_str" ELSE "raised"
           /\ hit_location' = IF r.exc = NoExc THEN r.val ELSE hit_location
    /\ UNCHANGED <<team_vars, call_vars, game, plate_appearance_description, plate_appearance_summary,
                   out_runners_list, error_str, got_on_base, scorecard_summary>>

\* self.error_str = self.get_error_str()
GetErrorStr ==
    /\ pc = "get_error_str"
    /\ \E r \in {get_error_str(plate_appearance_description)} :
           /\ exc' = r.exc
           /\ pc' = IF r.exc = NoExc THEN "get_on_base_and_summary" ELSE "raised"
           /\ error_str' = IF r.exc = NoExc THEN r.val ELSE error_str
    /\ UNCHANGED <<team_vars, call_vars, game, plate_appearance_description, plate_appearance_summary,
                   out_runners_list, hit_location, got_on_base, scorecard_summary>>

\* (self.got_on_base, self.scorecard_summary) = self.get_on_base_and_summary()
GetOnBaseAndSummary ==
    /\ pc = "get_on_base_and_summary"
    /\ \E r \in {get_on_base_and_summary(plate_appearance_description,
                                            plate_appearance_summary)} :
           /\ exc' = r.exc
           /\ pc' = IF r.exc = NoExc THEN "done" ELSE "raised"
           /\ got_on_base' = IF r.exc = NoExc THEN r.val[1] ELSE got_on_base
           /\ scorecard_summary' = IF r.exc = NoExc THEN r.val[2] ELSE scorecard_summary
    /\ UNCHANGED <<team_vars, call_vars, game, plate_appearance_description, plate_appearance_summary,
                   out_runners_list, hit_location, error_str>>

Next ==
    \/ \E p \in PlayerRefs : TeamAppend(p)
    \/ \E d \in Descriptions, s \in Summaries : NewPlateAppearance(d, s)
    \/ GetOutRunnersList
    \/ GetHitLocation
    \/ GetErrorStr
    \/ GetOnBaseAndSummary

Spec == Init /\ [][Next]_vars

(***************************************************************************)
(* The roster on its own: players are appended and looked up               *)
(***************************************************************************)

\* A reference to a player as prose writes it: the first initial, a period
\* and the last name
InitialReference(p) == CharAt(Player[p].first_name, 1) \o ". " \o Player[p].last_name

\* The names Team.find_player is asked for
PlayerNames ==
    {full_name(p) : p \in AllPlayerRefs}
    \cup {InitialReference(p) : p \in AllPlayerRefs}
    \cup {"", " ", ".", ". .", "Jr.", " II", "Mike Trout", "M. Trout", "Ronald Acuna",
          "A Pujols", "Pujols"}

\* The ids Team.find_player is asked for
PlayerIds == {Player[p].mlb_id : p \in AllPlayerRefs} \cup {0}

PlayerKeys ==
    {IntKey(i) : i \in PlayerIds} \cup {StrKey(n) : n \in PlayerNames} \cup {OtherKey}

\* player = team.find_player(key)
FindPlayer(key) ==
    /\ pc = "roster"
    /\ player_key' = key
    /\ \E r \in {find_player(key)} :
           /\ exc' = r.exc
           /\ pc' = IF r.exc = NoExc THEN "roster" ELSE "raised"
           /\ player' = IF r.exc = NoExc THEN r.val ELSE player
    /\ UNCHANGED <<team_vars, pa_vars, contained, input_str, game>>

TeamNext ==
    \/ \E p \in AllPlayerRefs : TeamAppend(p)
    \/ \E key \in PlayerKeys : FindPlayer(key)

TeamSpec == Init /\ [][TeamNext]_vars

\* contained = key in team
KeyInTeam(key) ==
    /\ pc = "roster"
    /\ player_key' = key
    /\ \E r \in {contains(key)} :
           /\ exc' = r.exc
           /\ pc' = IF r.exc = NoExc THEN "roster" ELSE "raised"
           /\ contained' = IF r.exc = NoExc THEN r.val ELSE contained
    /\ UNCHANGED <<team_vars, pa_vars, player, input_str, game>>

\* player = team[key]
ItemOfTeam(key) ==
    /\ pc = "roster"
    /\ player_key' = key
    /\ \E r \in {getitem(key)} :
           /\ exc' = r.exc
           /\ pc' = IF r.exc = NoExc THEN "roster" ELSE "raised"
           /\ player' = IF r.exc = NoExc THEN r.val ELSE player
    /\ UNCHANGED <<team_vars, pa_vars, contained, input_str, game>>

\* The keys the three lookups are compared on: ids and names of players,
\* names in the short form, unknown ones, the empty name and a key that is
\* neither int nor str
LookupKeys ==
    {IntKey(i) : i \in {Player["p_pujols"].mlb_id, Player["p_acuna"].mlb_id, 0}}
    \cup {StrKey(n) : n \in {full_name("p_pujols"), full_name("p_acuna"),
                              InitialReference("p_apujols"),
                              InitialReference("p_griffey"),
                              "Ronald Acuna", "Mike Trout", ""}}
    \cup {OtherKey}

\* The three lookups of a Team that is being filled
LookupNext ==
    \/ \E p \in AllPlayerRefs : TeamAppend(p)
    \/ \E key \in LookupKeys : FindPlayer(key)
    \/ \E key \in LookupKeys : KeyInTeam(key)
    \/ \E key \in LookupKeys : ItemOfTeam(key)

LookupSpec == Init /\ [][LookupNext]_vars

(***************************************************************************)
(* The name normalisers on their own                                       *)
(***************************************************************************)

\* The most words of a string handed to the normalisers
MaxWords == 3

\* The words of those strings
NameWords == {"A.", "J.", "Ken", "Griffey", "Jr.", "Jr", "II.", "III", "St."}

\* The white space between two words
WordGaps == {" ", "  "}

\* Descriptions with names that carry a suffix
SuffixedDescriptions ==
    {"Ronald Acuna Jr. Mike Trout scores",
     "Ronald Acuna Jr. scores. Ken Griffey Sr.  Mike Trout to 3rd",
     "Ken Griffey Sr. Ronald Acuna Jr. Mike Trout scores",
     "Ken Jr Sr. Mike Trout scores",
     "Ken Griffey II",
     "Ken Griffey III",
     "Ken Griffey IV",
     "Ken Griffey III scores. Ken Griffey IV to 3rd",
     "Mike St. Clair walks",
     "A. J. Pollock walks",
     "A. J. Pollock walks. J. D. Martinez to 2nd. C. J. Cron scores",
     "J. Lowrie walks. A. Pujols Jr. Mike Trout Jr. Ken Griffey Jr. Albert scores",
     "A. J. Pollock walks. J. D. Martinez Jr. Mike Trout Sr. Ken Griffey Sr. Albert scores"}

\* The strings handed to fix_initials and strip_suffixes
InputStrings ==
    {Join(words, gap) : words \in UNION {[1..n -> NameWords] : n \in 1..MaxWords},
                        gap \in WordGaps}
    \cup SuffixedDescriptions

\* A string is about to be normalised
NameInit ==
    /\ input_str \in InputStrings
    /\ pc = "normalise"
    /\ exc = NoExc
    /\ pitcher_list = <<>>
    /\ batting_order_list_list = EmptyBattingOrder
    /\ player_id_dict = <<>>
    /\ player_name_dict = <<>>
    /\ player_last_name_dict = <<>>
    /\ game = NoGame
    /\ plate_appearance_description = Unset
    /\ plate_appearance_summary = Unset
    /\ out_runners_list = Unset
    /\ hit_location = Unset
    /\ error_str = Unset
    /\ got_on_base = Unset
    /\ scorecard_summary = Unset
    /\ player_key = NoKey
    /\ player = Unset
    /\ contained = FALSE

\* input_str = fix_initials(input_str)
FixInitials ==
    /\ pc = "normalise"
    /\ input_str' = fix_initials(input_str)
    /\ UNCHANGED <<pc, exc, team_vars, pa_vars, player_key, player, contained, game>>

\* input_str = strip_suffixes(input_str)
StripSuffixes ==
    /\ pc = "normalise"
    /\ input_str' = strip_suffixes(input_str)
    /\ UNCHANGED <<pc, exc, team_vars, pa_vars, player_key, player, contained, game>>

NameNext ==
    \/ FixInitials
    \/ StripSuffixes

NameSpec == NameInit /\ [][NameNext]_vars

(***************************************************************************)
(* Game: construction and the explicit setters                             *)
(***************************************************************************)

\* A list of PlayerAppearance objects in a slot of batting_order_list_list
AppearanceList(appearances) == [is_none |-> FALSE, list |-> appearances]

\* PlayerAppearance(player_obj, position, ...)
PlayerAppearance(player_obj, position) ==
    [player_obj |-> player_obj, position |-> position]

\* The teams a Game is constructed with: a Team as Team.__init__ leaves it,
\* a Team whose pitcher and first batter only were entered, and a Team with
\* its nine batters, a substitute in the first slot who also bats ninth, and
\* two pitchers
FreshTeam ==
    [pitcher_list |-> <<>>, batting_order_list_list |-> EmptyBattingOrder]

PartialTeam ==
    [pitcher_list |-> <<PlayerAppearance("p_acuna", 1)>>,
     batting_order_list_list |->
         [slot \in 1..9 |->
             IF slot = 1
             THEN AppearanceList(<<PlayerAppearance("p_pujols", 3)>>)
             ELSE NoneList]]

FullBattingOrder ==
    <<"p_pujols", "p_acuna", "p_apujols", "p_vanslyke", "p_delarosa",
      "p_griffey", "p_pujols_b", "p_calhoun", "p_vanslyke">>

FullTeam ==
    [pitcher_list |-> <<PlayerAppearance("p_delarosa", 1),
                        PlayerAppearance("p_griffey", 1),
                        PlayerAppearance("p_delarosa", 1)>>,
     batting_order_list_list |->
         [slot \in 1..9 |->
             AppearanceList(
                 IF slot = 1
                 THEN <<PlayerAppearance(FullBattingOrder[1], 3),
                        PlayerAppearance(FullBattingOrder[9], 3)>>
                 ELSE <<PlayerAppearance(FullBattingOrder[slot], slot + 1)>>)]]

GameTeams == {FreshTeam, PartialTeam, FullTeam}

\* A datetime in UTC, and no datetime
Datetime(weekday, month, day, year, hour, minute) ==
    [is_none |-> FALSE, weekday |-> weekday, month |-> month, day |-> day,
     year |-> year, hour |-> hour, minute |-> minute]

NoDatetime ==
    [is_none |-> TRUE, weekday |-> 1, month |-> 1, day |-> 1,
     year |-> 0, hour |-> 0, minute |-> 0]

\* Sunday 2 June 2019, 02:05 UTC and 05:10 UTC
FirstPitchDatetimes == {NoDatetime, Datetime(7, 6, 2, 2019, 2, 5)}

LastPitchDatetimes == {NoDatetime, Datetime(7, 6, 2, 2019, 5, 10)}

GameLocations == {None, "Dodger Stadium", "Coors Field", "Wrigley Field", "Estadio de Beisbol"}

\* STADIUM_TIMEZONE_DICT, the entries of the locations above
STADIUM_TIMEZONE_DICT ==
    [location \in {"Dodger Stadium", "Coors Field", "Wrigley Field"} |->
        CASE location = "Dodger Stadium" -> "America/Los_Angeles"
          [] location = "Coors Field" -> "America/Denver"
          [] location = "Wrigley Field" -> "America/Chicago"]

\* STADIUM_TIMEZONE_DICT.get(self.location, 'America/New_York')
StadiumTimezone(location) ==
    IF location \in DOMAIN STADIUM_TIMEZONE_DICT
    THEN STADIUM_TIMEZONE_DICT[location]
    ELSE "America/New_York"

\* pytz timezone(name): hours from UTC and abbreviation, in daylight time
\* (the datetimes above are in June)
timezone(name) ==
    CASE name = "America/New_York" -> [utcoffset |-> 0 - 4, tzname |-> "EDT"]
      [] name = "America/Chicago" -> [utcoffset |-> 0 - 5, tzname |-> "CDT"]
      [] name = "America/Denver" -> [utcoffset |-> 0 - 6, tzname |-> "MDT"]
      [] name = "America/Los_Angeles" -> [utcoffset |-> 0 - 7, tzname |-> "PDT"]

\* datetime.astimezone(tz), for a datetime that is not on the first day of
\* its month
astimezone(datetime, tz) ==
    IF datetime.hour + tz.utcoffset >= 0
    THEN [datetime EXCEPT !.hour = datetime.hour + tz.utcoffset] @@ [tzname |-> tz.tzname]
    ELSE [datetime EXCEPT !.hour = datetime.hour + tz.utcoffset + 24,
                          !.day = datetime.day - 1,
                          !.weekday = IF datetime.weekday = 1 THEN 7
                                      ELSE datetime.weekday - 1]
         @@ [tzname |-> tz.tzname]

WeekdayNames == <<"Mon", "Tue", "Wed", "Thu", "Fri", "Sat", "Sun">>

MonthNames == <<"Jan", "Feb", "Mar", "Apr", "May", "Jun",
                "Jul", "Aug", "Sep", "Oct", "Nov", "Dec">>

\* %d, %M: two digits
TwoDigits(n) == IF n < 10 THEN "0" \o ToString(n) ELSE ToString(n)

\* %-I: the hour of the 12-hour clock, not padded
TwelveHour(hour) == IF hour % 12 = 0 THEN "12" ELSE ToString(hour % 12)

\* %p
AmPm(hour) == IF hour < 12 THEN "AM" ELSE "PM"

\* strftime('%a %b %d %Y, %-I:%M %p')
FirstPitchFormat(local) ==
    WeekdayNames[local.weekday] \o " " \o MonthNames[local.month] \o " "
        \o TwoDigits(local.day) \o " " \o ToString(local.year) \o ", "
        \o TwelveHour(local.hour) \o ":" \o TwoDigits(local.minute) \o " "
        \o AmPm(local.hour)

\* strftime(' - %-I:%M %p %Z')
LastPitchFormat(local) ==
    " - " \o TwelveHour(local.hour) \o ":" \o TwoDigits(local.minute) \o " "
        \o AmPm(local.hour) \o " " \o local.tzname

\* A field of a Game that holds None, and one that holds a value
NoneField == [is_none |-> TRUE, value |-> <<>>]

Holding(value) == [is_none |-> FALSE, value |-> value]

\* Game.__init__
NewGameObject(home_team, away_team, location, game_date_str, first_pitch_datetime, last_pitch_datetime) ==
    [constructed |-> TRUE,
     home_team |-> home_team,
     away_team |-> away_team,
     location |-> IF location = None THEN "" ELSE location,
     game_date_str |-> game_date_str,
     first_pitch_datetime |-> first_pitch_datetime,
     last_pitch_datetime |-> last_pitch_datetime,
     inning_list |-> <<>>,
     away_batter_box_score_dict |-> NoneField,
     home_batter_box_score_dict |-> NoneField,
     away_pitcher_box_score_dict |-> NoneField,
     home_pitcher_box_score_dict |-> NoneField,
     away_team_stats |-> NoneField,
     home_team_stats |-> NoneField,
     first_pitch_str |-> "",
     last_pitch_str |-> ""]

\* baseball.stats: the statistics of a pitcher, of a batter, of the rows of
\* a box score and of a team, as values that name what they summarise
get_all_pitcher_stats(this_game, team, pitcher, inning_half_str) ==
    <<"pitcher_stats", pitcher, inning_half_str>>

get_all_batter_stats(this_game, batter, inning_half_str) ==
    <<"batter_stats", batter, inning_half_str>>

get_box_score_total(box_score_dict) ==
    <<"box_score_total", Len(box_score_dict)>>

get_team_stats(this_game, inning_half_str) ==
    <<"team_stats", inning_half_str>>

\* key in box_score_dict, an OrderedDict kept as its sequence of items
InOrderedDict(box_score_dict, key) ==
    \E i \in DOMAIN box_score_dict : box_score_dict[i][1] = key

\* box_score_dict[key] = value: a new key goes last, a known key keeps its
\* place
OrderedDictSet(box_score_dict, key, value) ==
    IF InOrderedDict(box_score_dict, key)
    THEN [i \in DOMAIN box_score_dict |->
             IF box_score_dict[i][1] = key THEN <<key, value>>
             ELSE box_score_dict[i]]
    ELSE Append(box_score_dict, <<key, value>>)

\* for pitcher_appearance in team.pitcher_list: box_score_dict[pitcher] = ...
RECURSIVE PitcherBoxScore(_, _, _, _, _)
PitcherBoxScore(box_score_dict, this_game, team, inning_half_str, k) ==
    IF k > Len(team.pitcher_list) THEN box_score_dict
    ELSE PitcherBoxScore(
             OrderedDictSet(box_score_dict, team.pitcher_list[k].player_obj,
                            get_all_pitcher_stats(this_game, team,
                                                  team.pitcher_list[k].player_obj,
                                                  inning_half_str)),
             this_game, team, inning_half_str, k + 1)

\* for batter_appearance in batting_order_list: if batter not in
\* box_score_dict: box_score_dict[batter] = ...
RECURSIVE BatterListBoxScore(_, _, _, _, _)
BatterListBoxScore(box_score_dict, this_game, batting_order_list, inning_half_str, k) ==
    IF k > Len(batting_order_list) THEN box_score_dict
    ELSE BatterListBoxScore(
             IF InOrderedDict(box_score_dict, batting_order_list[k].player_obj)
             THEN box_score_dict
             ELSE OrderedDictSet(box_score_dict, batting_order_list[k].player_obj,
                                 get_all_batter_stats(this_game,
                                                      batting_order_list[k].player_obj,
                                                      inning_half_str)),
             this_game, batting_order_list, inning_half_str, k + 1)

\* for batting_order_list in team.batting_order_list_list: ..., then
\* box_score_dict['TOTAL'] = get_box_score_total(box_score_dict); iterating
\* a slot that holds None raises TypeError and leaves the dictionary as
\* filled so far
RECURSIVE BatterBoxScore(_, _, _, _, _)
BatterBoxScore(box_score_dict, this_game, team, inning_half_str, slot) ==
    IF slot > Len(team.batting_order_list_list)
    THEN Return(OrderedDictSet(box_score_dict, "TOTAL",
                               get_box_score_total(box_score_dict)))
    ELSE IF team.batting_order_list_list[slot].is_none
    THEN [exc |-> TypeErrorNotIterable, val |-> box_score_dict]
    ELSE BatterBoxScore(
             BatterListBoxScore(box_score_dict, this_game,
                                team.batting_order_list_list[slot].list,
                                inning_half_str, 1),
             this_game, team, inning_half_str, slot + 1)

\* Game.set_gametimes
set_gametimes(this_game) ==
    [this_game EXCEPT
        !.first_pitch_str =
            IF this_game.first_pitch_datetime.is_none THEN ""
            ELSE FirstPitchFormat(
                     astimezone(this_game.first_pitch_datetime,
                                timezone(StadiumTimezone(this_game.location)))),
        !.last_pitch_str =
            IF this_game.last_pitch_datetime.is_none THEN ""
            ELSE LastPitchFormat(
                     astimezone(this_game.last_pitch_datetime,
                                timezone(StadiumTimezone(this_game.location))))]

\* Game.set_pitching_box_score_dict as it would be if its first lines also
\* assigned an empty OrderedDict to the two batter dictionaries
set_pitching_box_score_dict_all_four(this_game) ==
    [this_game EXCEPT
        !.away_batter_box_score_dict = Holding(<<>>),
        !.home_batter_box_score_dict = Holding(<<>>),
        !.away_pitcher_box_score_dict =
            Holding(PitcherBoxScore(<<>>, this_game, this_game.away_team, "bottom", 1)),
        !.home_pitcher_box_score_dict =
            Holding(PitcherBoxScore(<<>>, this_game, this_game.home_team, "top", 1))]

\* Game.set_pitching_box_score_dict
set_pitching_box_score_dict(this_game) ==
    [this_game EXCEPT
        !.away_pitcher_box_score_dict =
            Holding(PitcherBoxScore(<<>>, this_game, this_game.away_team, "bottom", 1)),
        !.home_pitcher_box_score_dict =
            Holding(PitcherBoxScore(<<>>, this_game, this_game.home_team, "top", 1))]

\* Game.set_batting_box_score_dict: the Game it leaves and the exception it
\* ends with; the home dictionary stays empty when the away team raises
set_batting_box_score_dict(this_game) ==
    Bind(BatterBoxScore(<<>>, this_game, this_game.away_team, "top", 1),
         LAMBDA away :
    Bind(IF away.exc # NoExc THEN [exc |-> away.exc, val |-> <<>>]
         ELSE BatterBoxScore(<<>>, this_game, this_game.home_team, "bottom", 1),
         LAMBDA home :
             [exc |-> home.exc,
              val |-> [this_game EXCEPT
                          !.away_batter_box_score_dict = Holding(away.val),
                          !.home_batter_box_score_dict = Holding(home.val)]]))

\* Game.set_team_stats
set_team_stats(this_game) ==
    [this_game EXCEPT
        !.away_team_stats = Holding(get_team_stats(this_game, "top")),
        !.home_team_stats = Holding(get_team_stats(this_game, "bottom"))]

GameDateStrs == {"2019-06-01"}

GameInit ==
    /\ pc = "game"
    /\ exc = NoExc
    /\ game = NoGame
    /\ pitcher_list = <<>>
    /\ batting_order_list_list = EmptyBattingOrder
    /\ player_id_dict = <<>>
    /\ player_name_dict = <<>>
    /\ player_last_name_dict = <<>>
    /\ plate_appearance_description = Unset
    /\ plate_appearance_summary = Unset
    /\ out_runners_list = Unset
    /\ hit_location = Unset
    /\ error_str = Unset
    /\ got_on_base = Unset
    /\ scorecard_summary = Unset
    /\ player_key = NoKey
    /\ player = Unset
    /\ contained = FALSE
    /\ input_str = Unset

\* game = Game(home_team, away_team, location, game_date_str,
\*             first_pitch_datetime, last_pitch_datetime)
NewGame ==
    /\ pc = "game"
    /\ ~game.constructed
    /\ \E home_team \in GameTeams, away_team \in GameTeams,
          location \in GameLocations, game_date_str \in GameDateStrs,
          first_pitch_datetime \in FirstPitchDatetimes,
          last_pitch_datetime \in LastPitchDatetimes :
           game' = NewGameObject(home_team, away_team, location, game_date_str,
                                 first_pitch_datetime, last_pitch_datetime)
    /\ UNCHANGED <<pc, exc, team_vars, pa_vars, call_vars>>

\* game.set_gametimes()
SetGametimes ==
    /\ pc = "game"
    /\ game.constructed
    /\ game' = set_gametimes(game)
    /\ exc' = NoExc
    /\ UNCHANGED <<pc, team_vars, pa_vars, call_vars>>

\* game.set_pitching_box_score_dict()
SetPitchingBoxScoreDict ==
    /\ pc = "game"
    /\ game.constructed
    /\ game' = set_pitching_box_score_dict(game)
    /\ exc' = NoExc
    /\ UNCHANGED <<pc, team_vars, pa_vars, call_vars>>

\* game.set_batting_box_score_dict()
SetBattingBoxScoreDict ==
    /\ pc = "game"
    /\ game.constructed
    /\ \E r \in {set_batting_box_score_dict(game)} :
           /\ game' = r.val
           /\ exc' = r.exc
    /\ UNCHANGED <<pc, team_vars, pa_vars, call_vars>>

\* game.set_team_stats()
SetTeamStats ==
    /\ pc = "game"
    /\ game.constructed
    /\ game' = set_team_stats(game)
    /\ exc' = NoExc
    /\ UNCHANGED <<pc, team_vars, pa_vars, call_vars>>

GameNext ==
    \/ NewGame
    \/ SetGametimes
    \/ SetPitchingBoxScoreDict
    \/ SetBattingBoxScoreDict
    \/ SetTeamStats

GameSpec == GameInit /\ [][GameNext]_vars

(***************************************************************************)
(* Properties of the play classifier                                       *)
(***************************************************************************)

\* The primary clause of a description: the text before the first '. ' of
\* the description once its name suffixes are normalised
PrimaryClauseOf(description) == Split1(strip_suffixes(description), ". ")[1]

\* The places in PLAY_CODE_ORDERED_DICT of the keywords that occur in clause
MatchingKeywords(clause) ==
    {i \in DOMAIN PLAY_CODE_ORDERED_DICT :
         Contains(clause, PLAY_CODE_ORDERED_DICT[i][1])}

\* The greatest member of a non-empty set of numbers
Greatest(S) == CHOOSE i \in S : \A j \in S : j <= i

\* The constructor has stored its arguments and derived nothing yet
ArgumentsStored == pc = "get_out_runners_list"

\* C1: for every primary clause and every summary label other than 'Fan
\* interference', if at least one keyword of PLAY_CODE_ORDERED_DICT occurs
\* in the primary clause, get_play_str returns the code of the matching
\* keyword that comes last in table order; a clause with 'hits a sacrifice
\* fly to center' yields SF, not F.
C1_LastMatchingKeywordWins ==
    (ArgumentsStored /\ plate_appearance_summary # "Fan interference") =>
        \A clause \in {PrimaryClauseOf(plate_appearance_description)} :
        \A matching \in {MatchingKeywords(clause)} :
        \A play_str \in {get_play_str(plate_appearance_description,
                                      plate_appearance_summary)} :
            /\ matching # {} =>
                   play_str = Return(PLAY_CODE_ORDERED_DICT[Greatest(matching)][2])
            /\ Contains(clause, "hits a sacrifice fly to center") =>
                   play_str = Return("SF")

\* C1 witness: the construction has classified a sacrifice fly, in which
\* both 'fly' and the later 'sacrifice fly' occur, and recorded SF.
C1_SacrificeFlyClassified ==
    /\ pc = "get_error_str"
    /\ plate_appearance_summary = "Groundout"
    /\ plate_appearance_description
           = "Mike Trout hits a sacrifice fly to center fielder Kevin Pillar."
    /\ Cardinality(MatchingKeywords(PrimaryClauseOf(plate_appearance_description))) > 1
    /\ hit_location = "SF8"

\* The patterns that excuse a clause without keyword
DisqualifyingPatterns ==
    {"out at", "singles", "doubles", "triples", "hits a home run", "ejected"}

\* Neither a keyword of the table nor the summary label decides the code
NoKeyword(clause) ==
    /\ MatchingKeywords(clause) = {}
    /\ plate_appearance_summary # "Fan interference"

\* One of the disqualifying patterns occurs in the clause
Excused(clause) == \E k \in DisqualifyingPatterns : Contains(clause, k)

\* C8: for every primary clause in which no table keyword occurs and every
\* summary label other than 'Fan interference', get_play_str returns the
\* empty string if and only if the clause contains one of the disqualifying
\* patterns, and otherwise raises the ValueError that names the
\* description; it never returns None.  Conversely a construction ends
\* with that ValueError only on such a clause.
C8_NoKeywordEmptyOrValueError ==
    /\ ArgumentsStored =>
           \A clause \in {PrimaryClauseOf(plate_appearance_description)} :
               NoKeyword(clause) =>
                   \A play_str \in {get_play_str(plate_appearance_description,
                                                 plate_appearance_summary)} :
                       /\ (play_str = Return("")) <=> Excused(clause)
                       /\ ~Excused(clause) => play_str = Raise(ValueErrorKeyword)
                       /\ play_str # Return(None)
    /\ (pc = "raised" /\ exc = ValueErrorKeyword) =>
           \A clause \in {PrimaryClauseOf(plate_appearance_description)} :
               NoKeyword(clause) /\ ~Excused(clause)

\* C8 witness: a construction has ended with the ValueError of the
\* classifier, on a clause without keyword and without excusing pattern.
C8_NoKeywordRaised ==
    /\ pc = "raised"
    /\ exc = ValueErrorKeyword
    /\ plate_appearance_description = "Mike Trout reaches on a dropped third strike."
    /\ MatchingKeywords(PrimaryClauseOf(plate_appearance_description)) = {}


(***************************************************************************)
(* Properties of the defensive chain                                       *)
(***************************************************************************)

\* The clause get_throws_str hands to get_defense_code_order
ChainClauseOf(description) == ThrowsClauses(description).description_str

\* The phrases of rule 1
NoChainPhrases ==
    {"caught stealing", "on fan interference", "picks off", "wild pitch by"}

\* The chain that rules 1 to 6, tried in this order, give a clause
RuledChain(clause) ==
    IF \E k \in NoChainPhrases : Contains(clause, k) THEN <<>>
    ELSE IF Contains(clause, "catcher interference by") THEN <<"catcher">>
    ELSE IF Contains(clause, "fielded by")
    THEN <<From(clause, Find(clause, " fielded by ", 1) + Len(" fielded by "))>>
    ELSE IF Contains(clause, ", ") /\ Contains(clause, " to ")
    THEN Split(Split(clause, ", ")[2], " to ")
    ELSE IF Contains(clause, " to ") THEN Tail(Split(clause, " to "))
    ELSE <<>>

\* C2: for every clause that does not contain 'error by',
\* get_defense_predicate_list returns the chain of the first of rules 1 to
\* 6 that applies: (1) 'caught stealing', 'on fan interference', 'picks
\* off' or 'wild pitch by' give the empty chain; (2) 'catcher interference
\* by' gives [catcher]; (3) 'fielded by' gives the single text after it;
\* (4) a comma and ' to ' give the segment after the first comma, split on
\* ' to '; (5) ' to ' without comma gives every segment after the first
\* ' to '; (6) anything else gives the empty chain.
C2_FirstMatchingRuleDecides ==
    ArgumentsStored =>
        \A clause \in {ChainClauseOf(plate_appearance_description)} :
            ~Contains(clause, "error by") =>
                get_defense_predicate_list(clause) = Return(RuledChain(clause))

\* C2 witness: the construction has gone through a clause to which rules 1
\* and 4 both apply, and rule 1 has left it without chain and hit location.
C2_CaughtStealingBeforeComma ==
    /\ pc = "done"
    /\ \A clause \in {ChainClauseOf(plate_appearance_description)} :
           /\ Contains(clause, "caught stealing")
           /\ Contains(clause, ", ") /\ Contains(clause, " to ")
           /\ ~Contains(clause, "error by")
    /\ plate_appearance_summary = "Groundout"
    /\ scorecard_summary = "CS"
    /\ hit_location = None

\* A position token without 'deep' and 'shallow'
WithoutDepth(token) == Replace(Replace(token, "deep", ""), "shallow", "")

\* Something is left of the token to take a word from
HasWord(token) == SplitWords(WithoutDepth(token)) # <<>>

\* The first word of a position token, up to its first hyphen
ChainWord(token) == Split(SplitWords(WithoutDepth(token))[1], "-")[1]

\* The words of the tokens of a chain
ChainWords(chain) == [k \in DOMAIN chain |-> ChainWord(chain[k])]

\* The codes of the words that are positions, in the order of the words
PositionCodes(words) ==
    Bind(SelectSeq(words, LAMBDA w : w \in DOMAIN POSITION_CODE_DICT),
         LAMBDA positions :
        [k \in DOMAIN positions |-> Str(POSITION_CODE_DICT[positions[k]])])

\* The base names a chain may hold
BaseNames == {"1st", "2nd", "3rd"}

\* A base name, possibly with periods and blanks around it
IsBaseNameInPeriods(word) == Strip(word, {" ", "."}) \in BaseNames

\* The outcome for the words of a chain when the words that are no
\* positions raise ValueError unless they are among the skipped ones
CodesOrValueError(words, skipped) ==
    IF \E k \in DOMAIN words :
           words[k] \notin DOMAIN POSITION_CODE_DICT /\ words[k] \notin skipped
    THEN Raise(ValueErrorPosition)
    ELSE Return(PositionCodes(words))

\* The chain of a clause, when every token of it holds a word
WordedChain(clause) ==
    Bind(get_defense_predicate_list(clause), LAMBDA chain :
        IF chain.exc = NoExc /\ \A k \in DOMAIN chain.val : HasWord(chain.val[k])
        THEN {chain.val}
        ELSE {})

OnBaseNotation ==
    ("Single" :> "1B") @@ ("Double" :> "2B") @@ ("Triple" :> "3B") @@
    ("Hit By Pitch" :> "HBP") @@ ("Home Run" :> "HR") @@ ("Walk" :> "BB") @@
    ("Intent Walk" :> "IBB")

\* C4: every constructed PlateAppearance whose summary label is one of
\* Single, Double, Triple, Hit By Pitch, Home Run, Walk, Intent Walk has
\* got_on_base = True and as scorecard_summary the notation of the label
\* followed by the baserunner-out suffix; every other one has got_on_base =
\* False and as scorecard_summary the play code, the defensive-chain string
\* and the suffix.  'Mike Trout singles to center field.' with label
\* 'Single' gives summary '1B', on-base true and no error code.
C4_OnBaseAndSummary ==
    pc = "done" =>
        \A throws \in {get_throws_str(plate_appearance_description).val} :
            /\ IF plate_appearance_summary \in DOMAIN OnBaseNotation
               THEN /\ got_on_base = TRUE
                    /\ scorecard_summary
                           = OnBaseNotation[plate_appearance_summary] \o throws[2]
               ELSE /\ got_on_base = FALSE
                    /\ scorecard_summary
                           = get_play_str(plate_appearance_description,
                                          plate_appearance_summary).val
                                 \o throws[1] \o throws[2]
            /\ (/\ plate_appearance_description = "Mike Trout singles to center field."
                /\ plate_appearance_summary = "Single") =>
                   (scorecard_summary = "1B" /\ got_on_base = TRUE /\ error_str = None)

\* C4 witness: the single of the example has been constructed.
C4_SingleConstructed ==
    /\ pc = "done"
    /\ plate_appearance_description = "Mike Trout singles to center field."
    /\ plate_appearance_summary = "Single"
    /\ scorecard_summary = "1B"
    /\ got_on_base = TRUE

\* The play codes without batted-ball location
NoLocationCodes == {"K", TurnedK, "BB", "IBB"}

ErrorStrAttempted == hit_location # Unset /\ pc # "get_error_str"

\* The word after the first 'error by' of a description
FielderAfterErrorBy(description) ==
    SplitWords(From(description, Find(description, "error by", 1) + Len("error by")))[1]

\* C6: for every description the error code is 'E' followed by the
\* position code of the fielder named after 'error by' when 'error by'
\* occurs in the raw description; it is 'E2' when the description contains
\* 'catcher interference' and no 'error by'; and it is None, without
\* exception, for every other description, also one that contains 'error'
\* without 'error by'.
C6_ErrorCode ==
    ErrorStrAttempted =>
        IF Contains(plate_appearance_description, "error by")
        THEN \A fielder \in {FielderAfterErrorBy(plate_appearance_description)} :
                 fielder \in DOMAIN POSITION_CODE_DICT =>
                     error_str = "E" \o Str(POSITION_CODE_DICT[fielder])
        ELSE IF Contains(plate_appearance_description, "catcher interference")
        THEN error_str = "E2"
        ELSE error_str = None

\* The list of out runners has been assigned and nothing has raised since
OutRunnersRecorded ==
    pc \in {"get_hit_location", "get_error_str", "get_on_base_and_summary", "done"}

\* The runner-out matches of a description from position i on: the base
\* each one states, and whether its phrase is 'doubled off'
RECURSIVE StatedOuts(_, _)
StatedOuts(s, i) ==
    Bind(RunnerSearch(s, i), LAMBDA start :
        IF start = 0 THEN <<>>
        ELSE Bind(RunnerMatchAt(s, start), LAMBDA m :
                 <<[base |-> m.base,
                    doubled_off |-> Contains(SubSeq(s, start + Len(m.name), m.end - 1),
                                             "doubled off")]>>
                 \o StatedOuts(s, m.end)))

\* One step further than a base
AdvancedBase == ("1st" :> "2nd") @@ ("2nd" :> "3rd") @@ ("3rd" :> "home")

\* C7: for every runner-out match found by get_out_runners_list, the
\* recorded base is the stated base advanced one step (1st->2nd, 2nd->3rd,
\* 3rd->home) if the phrase of that match is 'doubled off', and exactly the
\* stated base if it is any other phrase, also when the same runner name
\* occurs elsewhere in the description with 'doubled off'; 'doubled off
\* second base' records '3rd' and so does not end the construction.
C7_RecordedBases ==
    /\ OutRunnersRecorded =>
           \A stated \in {StatedOuts(strip_suffixes(plate_appearance_description), 1)} :
               /\ Len(out_runners_list) = Len(stated)
               /\ \A k \in DOMAIN stated :
                      out_runners_list[k][2]
                          = IF stated[k].doubled_off
                            THEN AdvancedBase[stated[k].base]
                            ELSE stated[k].base
    /\ (/\ Contains(plate_appearance_description, "Albert Pujols doubled off second base")
        /\ "Albert Pujols" \in DOMAIN player_name_dict) =>
           ~(pc = "raised" /\ hit_location = Unset /\ exc = KeyError)

\* C9: for every description, summary label and roster the construction
\* of a PlateAppearance either completes with all derived fields set or
\* fails with one of exactly two errors: a position token that is neither a
\* position nor a base name, or a clause without play keyword and without
\* disqualifying pattern.  No IndexError, no KeyError and no other failure
\* is reachable.
C9_OnlyTwoFatalErrors ==
    /\ pc = "raised" => exc \in {ValueErrorPosition, ValueErrorKeyword}
    /\ pc = "done" =>
           /\ exc = NoExc
           /\ Unset \notin {hit_location, error_str, scorecard_summary}
           /\ got_on_base \in BOOLEAN

\* C10: a runner-out phrase that names a runner the roster of the batting
\* team cannot resolve does not abort the construction: no construction
\* ends with the not-found error of the roster lookup.
C10_RosterMissDoesNotAbort ==
    ~(pc = "raised" /\ exc = ValueErrorNotFound)

(***************************************************************************)
(* Properties of the roster                                                *)
(***************************************************************************)

\* The generational suffixes the roster strips from names
GenerationalSuffixes == {" Jr", " Sr", " II", " III", " IV"}

\* A player whose name carries no generational suffix
SuffixFree(p) == \A g \in GenerationalSuffixes : ~Contains(full_name(p), g)

\* The three lookups of a player all find that player
FoundByAllKeys(p) ==
    /\ find_player(IntKey(Player[p].mlb_id)) = Return(p)
    /\ find_player(StrKey(full_name(p))) = Return(p)
    /\ find_player(StrKey(InitialReference(p))) = Return(p)

\* C11: for every player whose first and last name carry no suffix, the
\* last name being of one, two, three or more words, immediately after
\* Team.append(player) the lookups by mlb_id, by full name and by the first
\* initial followed by the full last name each return that player.
C11_AppendThenFind ==
    [][\A p \in AllPlayerRefs :
           (TeamAppend(p) /\ SuffixFree(p)) => FoundByAllKeys(p)']_vars

\* The players a dict holds
DictValues(dict) == {dict[key] : key \in DOMAIN dict}

\* The players some index of the roster holds: each of them was appended
IndexedPlayers ==
    DictValues(player_id_dict) \cup DictValues(player_name_dict)
        \cup DictValues(player_last_name_dict)

\* C12: after any sequence of Team.append calls the three indices agree on
\* every appended player p: player_id_dict[p.mlb_id],
\* player_name_dict[p.full_name()] and player_last_name_dict[initial + short
\* last name of p] are all p, also when two players of the roster share an
\* initial and short last name, a full name or an id.
C12_IndicesAgree ==
    \A p \in IndexedPlayers :
        /\ DictGet(player_id_dict, Player[p].mlb_id) = p
        /\ DictGet(player_name_dict, full_name(p)) = p
        /\ DictGet(player_last_name_dict, AppendLastNameKey(p)) = p

\* C13: for every int key and every str key, the empty string and strings
\* of only spaces, periods or a generational suffix included,
\* Team.find_player raises nothing: it returns a player of the roster, or
\* None when neither the direct nor the fuzzy lookup succeeds, and it
\* leaves the three indices as they were.
C13_FindPlayerNeverRaises ==
    [][\A key \in PlayerKeys :
           (FindPlayer(key) /\ key.isinstance \in {"int", "str"}) =>
               /\ exc' = NoExc
               /\ player' \in IndexedPlayers \cup {None}
               /\ UNCHANGED team_vars]_vars

(***************************************************************************)
(* Properties of the defensive chain, continued                            *)
(***************************************************************************)

\* C14: for every clause in which 'error by' appears, wherever it stands
\* and whatever precedes or follows it, get_defense_predicate_list returns
\* a chain of exactly one element, the fielder named immediately after
\* 'error by', whatever rules 1 to 6 gave.
C14_ErrorByOverrides ==
    ArgumentsStored =>
        \A clause \in {ChainClauseOf(plate_appearance_description)} :
            Contains(clause, "error by") =>
                \A chain \in {get_defense_predicate_list(clause)} :
                    /\ chain.exc = NoExc
                    /\ Len(chain.val) = 1
                    /\ SplitWords(chain.val[1])[1] = FielderAfterErrorBy(clause)

\* The suffix-clause text of a description: what get_throws_str hands to
\* get_defense_suffix
SuffixClauseOf(description) == ThrowsClauses(description).suffix_str

\* The text holds an out-phrasing
HasOutPhrase(text) == \E k \in DOMAIN OutPhrases : Contains(text, OutPhrases[k])

\* The text holds an out-phrasing followed by its base and by a location
\* clause that a comma ends
HasOutLocation(text) ==
    \E k \in DOMAIN OutPhrases :
        \E i \in 1..Len(text) :
            /\ StartsAt(text, OutPhrases[k] \o " ", i)
            /\ Contains(From(text, i + Len(OutPhrases[k]) + 1), ", ")

\* C15: for every suffix-clause text, if it holds an out-phrasing with its
\* base and a comma-terminated location clause, get_defense_suffix returns
\* ' (' + the hyphen-joined position codes of the chain that follows + ')',
\* as in ' (6-4)', and 'doubled off second base, 4-6' gives ' (4-6)'; if it
\* holds no out-phrasing the suffix is the empty string.
C15_DefenseSuffix ==
    ArgumentsStored =>
        \A text \in {SuffixClauseOf(plate_appearance_description)} :
            \A defense_suffix \in {get_defense_suffix(text)} :
                /\ HasOutLocation(text) =>
                       /\ defense_suffix.exc = NoExc
                       /\ StartsAt(defense_suffix.val, " (", 1)
                       /\ StartsAt(defense_suffix.val, ")", Len(defense_suffix.val))
                /\ Contains(text, "out at 2nd, shortstop Marcus Semien to second baseman Jed Lowrie")
                       => defense_suffix = Return(" (6-4)")
                /\ Contains(text, "doubled off second base, 4-6")
                       => defense_suffix = Return(" (4-6)")
                /\ ~HasOutPhrase(text) => defense_suffix = Return("")

(***************************************************************************)
(* Properties of the baserunner outcome extractor, continued               *)
(***************************************************************************)

\* C16: the out-runner list of a PlateAppearance holds one (Player, base)
\* pair for each out-phrasing occurrence in the suffix-clause text (the
\* text after the first '. '), in textual order, each preceded by the
\* capitalised name of the runner; an out-phrasing that occurs in the
\* primary clause contributes no entry.
C16_OutsOfSuffixClauseOnly ==
    OutRunnersRecorded =>
        \A named \in {FindAllRunners(SuffixClauseOf(plate_appearance_description), 1)} :
            /\ Len(out_runners_list) = Len(named)
            /\ \A k \in DOMAIN named :
                   TeamGetItem(named[k][1]) = Return(out_runners_list[k][1])

(***************************************************************************)
(* Properties of the play classifier, continued                            *)
(***************************************************************************)

\* C17: if the summary label is 'Fan interference', get_play_str returns
\* 'FI' for every description, whatever keywords its clause contains and
\* also when the clause has no keyword and no disqualifying pattern: the
\* ValueError of the classifier is not raised, and a scorecard summary built
\* from the play code starts with 'FI'.
C17_FanInterferenceForcesFI ==
    plate_appearance_summary = "Fan interference" =>
        /\ ArgumentsStored =>
               get_play_str(plate_appearance_description, plate_appearance_summary)
                   = Return("FI")
        /\ exc # ValueErrorKeyword
        /\ pc = "done" => got_on_base = FALSE /\ StartsAt(scorecard_summary, "FI", 1)

\* C17 witness: a construction with the label 'Fan interference' has
\* completed on a clause without keyword and without disqualifying pattern.
C17_FanInterferenceWithoutKeyword ==
    /\ pc = "done"
    /\ plate_appearance_summary = "Fan interference"
    /\ MatchingKeywords(PrimaryClauseOf(plate_appearance_description)) = {}
    /\ ~Excused(PrimaryClauseOf(plate_appearance_description))
    /\ scorecard_summary = "FI"

(***************************************************************************)
(* Properties of the assembler, continued                                  *)
(***************************************************************************)

\* C18: for the description 'singles to left', which has no play keyword
\* and is excused by 'singles', the play code is the empty string, the
\* defensive-chain string is '7' and the hit location is None.
C18_SinglesToLeft ==
    (/\ plate_appearance_description = "singles to left"
     /\ plate_appearance_summary # "Fan interference") =>
        /\ ArgumentsStored =>
               /\ get_play_str(plate_appearance_description, plate_appearance_summary)
                      = Return("")
               /\ get_throws_str(plate_appearance_description) = Return(<<"7", "">>)
        /\ hit_location # Unset => hit_location = None

\* C18, amended: for the description 'singles to left' the play code is the
\* empty string, the defensive-chain string is '7' and the hit location is
\* '7': the empty play code is not in NO_HIT_CODE_LIST and the chain is not
\* empty, so the hit location is the play code followed by the first
\* character of the chain.
C18_SinglesToLeftLocated ==
    (/\ plate_appearance_description = "singles to left"
     /\ plate_appearance_summary # "Fan interference") =>
        /\ ArgumentsStored =>
               /\ get_play_str(plate_appearance_description, plate_appearance_summary)
                      = Return("")
               /\ get_throws_str(plate_appearance_description) = Return(<<"7", "">>)
        /\ hit_location # Unset => hit_location = "7"

\* C18 witness: the construction for 'singles to left' has completed with
\* the hit location '7'.
C18_SinglesToLeftConstructed ==
    /\ pc = "done"
    /\ plate_appearance_description = "singles to left"
    /\ plate_appearance_summary = "Groundout"
    /\ hit_location = "7"
    /\ scorecard_summary = "7"

(***************************************************************************)
(* Properties of the segmenter                                             *)
(***************************************************************************)

\* The text before the first occurrence of a separator, the whole text if
\* the separator does not occur
UpTo(text, sep) ==
    IF Contains(text, sep) THEN Before(text, Find(text, sep, 1)) ELSE text

\* The text after the first occurrence of a separator, the whole text if
\* the separator does not occur
After(text, sep) ==
    IF Contains(text, sep) THEN From(text, Find(text, sep, 1) + Len(sep)) ELSE text

\* C19: get_throws_str splits the description at the first '. ' into a
\* primary clause, the one get_play_str classifies, and a suffix remainder;
\* in the primary clause it drops everything from ', deflected' or
\* ', assist' on; and if ': ' is present it discards everything up to and
\* including the first ': ' and keeps all of the rest of the clause, also
\* when the clause contains a second ': '.
C19_Segmentation ==
    ArgumentsStored =>
        \A description \in {strip_suffixes(plate_appearance_description)} :
            \A clauses \in {ThrowsClauses(plate_appearance_description)} :
                /\ UpTo(description, ". ") = PlayClause(plate_appearance_description)
                /\ clauses.suffix_str
                       = (IF Contains(description, ". ") THEN After(description, ". ")
                          ELSE "")
                /\ clauses.description_str
                       = After(UpTo(UpTo(UpTo(description, ". "), ", deflected"),
                                    ", assist"), ": ")

(***************************************************************************)
(* Properties of the name normalisers                                      *)
(***************************************************************************)

\* C20: name normalisation is idempotent for every input string:
\* fix_initials(fix_initials(s)) = fix_initials(s) and
\* strip_suffixes(strip_suffixes(s)) = strip_suffixes(s).
C20_Idempotent ==
    pc = "normalise" =>
        /\ \A fixed \in {fix_initials(input_str)} : fix_initials(fixed) = fixed
        /\ \A stripped \in {strip_suffixes(input_str)} : strip_suffixes(stripped) = stripped

\* A suffix followed by white space and a capital letter occurs in the text
SuffixBeforeCapital(text, suffix) ==
    \E i \in 1..Len(text) : SuffixPatternAt(text, suffix, i)

\* C21: for every description that contains ' Jr.' or ' Sr.' followed by a
\* capitalised word, the output of strip_suffixes contains no ' Jr. ' and
\* no ' Sr. ' that a capital letter follows.
C21_NoSuffixBeforeCapital ==
    (/\ pc = "normalise"
     /\ \E suffix \in {" Jr.", " Sr."} : SuffixBeforeCapital(input_str, suffix)) =>
        \A stripped \in {strip_suffixes(input_str)} :
            \A suffix \in {" Jr.", " Sr."} : ~SuffixBeforeCapital(stripped, suffix)

\* The generational suffixes strip_suffixes deletes
DeletedSuffixes == {" II", " III", " IV"}

\* C22: strip_suffixes removes each of the generational suffixes ' II',
\* ' III' and ' IV' as a whole: for any name N, strip_suffixes(N + ' II'),
\* strip_suffixes(N + ' III') and strip_suffixes(N + ' IV') all equal
\* strip_suffixes(N); and every ' St. ' becomes ' St '.
C22_SuffixesRemovedWhole ==
    pc = "normalise" =>
        \A stripped \in {strip_suffixes(input_str)} :
            /\ \A suffix \in DeletedSuffixes :
                   strip_suffixes(input_str \o suffix) = stripped
            /\ ~Contains(stripped, " St. ")

\* The values input_str takes at the tests of the first loop of fix_initials
RECURSIVE JoinInitialPairsPasses(_)
JoinInitialPairsPasses(text) ==
    Bind(InitialsPairSearch(text), LAMBDA index_start :
        IF index_start = 0 THEN <<text>>
        ELSE <<text>>
                 \o JoinInitialPairsPasses(InitialPairJoined(text, index_start)))

\* The values input_str takes at the tests of the second loop of fix_initials
RECURSIVE DropInitialPeriodsPasses(_)
DropInitialPeriodsPasses(text) ==
    Bind(InitialThenCapitalSearch(text), LAMBDA index_start :
        IF index_start = 0 THEN <<text>>
        ELSE <<text>>
                 \o DropInitialPeriodsPasses(InitialPeriodDropped(text, index_start)))

\* The values input_str takes at the tests of the loop of strip_this_suffix
RECURSIVE SuffixPasses(_, _)
SuffixPasses(suffix, text) ==
    Bind(SuffixPatternSearch(text, suffix, 1), LAMBDA start :
        IF start = 0 THEN <<text>>
        ELSE <<text>>
                 \o SuffixPasses(suffix, SuffixReplaced(suffix, text, start)))

\* The number of periods of a text
Periods(text) == Cardinality({i \in 1..Len(text) : CharAt(text, i) = "."})

\* A run of a loop on a string of the given length: every pass leaves fewer
\* periods or a shorter string, and there are no more passes than the
\* string had characters
BoundedRun(passes, length) ==
    /\ Len(passes) - 1 <= length
    /\ \A k \in 1..(Len(passes) - 1) :
           \/ Periods(passes[k + 1]) < Periods(passes[k])
           \/ Len(passes[k + 1]) < Len(passes[k])

\* C23: for every input string both re-scan loops of fix_initials and the
\* re-scan loop of strip_this_suffix terminate, after a number of passes
\* that the length of the input bounds: every pass strictly reduces the
\* number of periods or the length of the string.
C23_LoopsBounded ==
    pc = "normalise" =>
        \A joining \in {JoinInitialPairsPasses(input_str)} :
        \A dropping \in {DropInitialPeriodsPasses(joining[Len(joining)])} :
        \A junior \in {SuffixPasses(" Jr.", input_str)} :
        \A senior \in {SuffixPasses(" Sr.", strip_this_suffix(" Jr.", input_str))} :
            /\ BoundedRun(joining, Len(input_str))
            /\ BoundedRun(dropping, Len(input_str))
            /\ BoundedRun(junior, Len(input_str))
            /\ BoundedRun(senior, Len(input_str))
            /\ fix_initials(input_str) = dropping[Len(dropping)]

\* C23 witness: a string on which the first loop of fix_initials and the
\* loops of strip_this_suffix each make more than one pass.
C23_SeveralPasses ==
    /\ pc = "normalise"
    /\ Len(JoinInitialPairsPasses(input_str)) > 2
    /\ Len(SuffixPasses(" Sr.", strip_this_suffix(" Jr.", input_str))) > 2
    /\ Len(DropInitialPeriodsPasses(input_str)) > 2

(***************************************************************************)
(* Properties of the construction as a whole                               *)
(***************************************************************************)

\* A step of the construction of a PlateAppearance
ConstructionStep == pc # "roster" \/ pc' # "roster"

BatterBoxScoreFields == {"away_batter_box_score_dict", "home_batter_box_score_dict"}

PitcherBoxScoreFields == {"away_pitcher_box_score_dict", "home_pitcher_box_score_dict"}

TeamStatsFields == {"away_team_stats", "home_team_stats"}

\* The field holds None before the step and a value after it
Populated(field) == game[field].is_none /\ ~game'[field].is_none

\* C25: the construction of a Game leaves the four box-score dictionaries
\* and the two team-stat summaries None, and afterwards a step gives one of
\* them a value only if it is a call of the setter the field belongs to:
\* set_batting_box_score_dict for the batter dictionaries,
\* set_pitching_box_score_dict for the pitcher dictionaries and
\* set_team_stats for the team stats; set_gametimes gives none a value.
C25_PopulatedByOwnSetterOnly ==
    [][/\ (~game.constructed /\ game'.constructed) =>
              \A field \in BatterBoxScoreFields \cup PitcherBoxScoreFields
                               \cup TeamStatsFields : game'[field].is_none
       /\ (game.constructed /\ game'.constructed) =>
              /\ \A field \in BatterBoxScoreFields :
                     Populated(field) => SetBattingBoxScoreDict
              /\ \A field \in PitcherBoxScoreFields :
                     Populated(field) => SetPitchingBoxScoreDict
              /\ \A field \in TeamStatsFields :
                     Populated(field) => SetTeamStats]_vars

\* C25 witness: set_gametimes and set_pitching_box_score_dict were called on
\* a Game with pitchers and a first pitch; its batter dictionaries and team
\* stats still hold None.
C25_PitchersOnly ==
    /\ game.constructed
    /\ game.first_pitch_str # ""
    /\ ~game.away_pitcher_box_score_dict.is_none
    /\ Len(game.home_pitcher_box_score_dict.value) > 1
    /\ \A field \in BatterBoxScoreFields \cup TeamStatsFields : game[field].is_none

(***************************************************************************)
(* Properties of the lookups of a Team                                     *)
(***************************************************************************)

\* C26: for every roster and every int or str key on which find_player
\* returns, 'key in team' is True exactly when find_player(key) returns a
\* Player; team[key] returns that Player in that case and raises ValueError
\* ('not found in team') exactly when find_player(key) returns None; a key
\* that is neither int nor str raises ValueError ('must be either int or
\* str') from find_player, from 'in' and from team[key].
C26_LookupsAgree ==
    [][\A key \in LookupKeys \cap {player_key'} :
       \A found \in {find_player(key)} :
           /\ (found.exc = NoExc /\ KeyInTeam(key)) =>
                  /\ exc' = NoExc
                  /\ contained' = (found.val \in AllPlayerRefs)
           /\ (found.exc = NoExc /\ ItemOfTeam(key)) =>
                  IF found.val \in AllPlayerRefs
                  THEN exc' = NoExc /\ player' = found.val
                  ELSE exc' = ValueErrorNotFound
           /\ (exc' = ValueErrorNotFound /\ ItemOfTeam(key)) =>
                  (found.exc = NoExc /\ found.val = None)
           /\ (key = OtherKey /\ (FindPlayer(key) \/ KeyInTeam(key) \/ ItemOfTeam(key))) =>
                  exc' = ValueErrorPlayerKey]_vars

\* C26 witness: team[key] raised 'not found in team' for a name that
\* find_player does not find in a roster that is not empty.
C26_ItemNotFound ==
    /\ pc = "raised"
    /\ exc = ValueErrorNotFound
    /\ player_key.isinstance = "str"
    /\ DOMAIN player_name_dict # {}
    /\ find_player(player_key) = Return(None)

====
